---- MODULE Spec2Model ----
(***************************************************************************)
(* A model of the SHACL validator: the validation report, the property     *)
(* path resolver, the target resolver and the validation engine.           *)
(***************************************************************************)
EXTENDS Integers, Sequences, FiniteSets, TLC

VARIABLES
    reports,       \* SpecReport: the ValidationReport values under construction
    last_op,       \* SpecReport: the operation applied last (history)
    merged,        \* SpecReport: receiver and argument of the last merge (history)
    graph,         \* SpecPath: the graph the path is resolved on
    path,          \* SpecPath: the Path (a sequence of PathElement)
    start,         \* SpecPath: the node the path is resolved for
    current_nodes, \* SpecPath: resolve_path_for_given_node's current_nodes
    elem_idx,      \* SpecPath: index of the path element being applied
    subj_list,     \* SpecPath: resolve_element's subjects still to handle
    results,       \* SpecPath: resolve_element's results
    visited,       \* SpecPath: the closure loop's visited set
    to_visit,      \* SpecPath: the closure loop's to_visit stack
    expanded,      \* SpecPath: terms popped by the running closure loop (history)
    ppc,           \* SpecPath: position in the resolver
    data_graph,    \* SpecValidate: the data graph of the ValidationDataset
    shapes,        \* SpecValidate: the shapes passed to validate
    target_cache,  \* SpecValidate: the TargetResolutionCache
    cache_pos,     \* SpecValidate: build_target_cache's index into shapes
    cache_seen,    \* SpecValidate: targets of shapes[cache_pos] already iterated
    vpc,           \* SpecValidate: position in validate
    shape_pc,      \* SpecValidate: per shape, the state of its parallel task
    focus_nodes_vec, \* SpecValidate: per shape task, its focus_nodes_vec
    focus_reports, \* SpecValidate: per shape task, the node_report of each focus task
    shape_reports, \* SpecValidate: the report each shape task returned (Option)
    report,        \* SpecValidate: validate's report
    merge_idx,     \* SpecValidate: index of the shape report merged next
    tgt_graph,     \* SpecTarget: the graph the target is resolved on
    tgt_target,    \* SpecTarget: the Target
    sub_visited,   \* SpecTarget: collect_all_subclasses' visited
    sub_to_visit,  \* SpecTarget: collect_all_subclasses' to_visit
    tgt_set,       \* SpecTarget: the set resolve_target_for_given_graph returns
    tpc,           \* SpecTarget: position in the resolution
    fn_graph,      \* SpecFocus: the data graph
    fn_shape,      \* SpecFocus: the shape validate_focus_node runs on
    fn_focus,      \* SpecFocus: the focus node
    fn_values,     \* SpecFocus: value_nodes
    fn_idx,        \* SpecFocus: index of the constraint validated next
    fn_report,     \* SpecFocus: the report the results are pushed to
    fpc,           \* SpecFocus: position in validate_focus_node
    shapes_graph,  \* SpecParse: the shapes graph given to parse_shapes
    shape_nodes,   \* SpecParse: the shape nodes the loop has still to go through
    parsed,        \* SpecParse: parse_shapes' `shapes`
    failed,        \* SpecParse: the shape nodes whose failure was logged
    prs_pc,        \* SpecParse: position in parse_shapes
    lst_graph,     \* SpecList: the graph given to parse_rdf_list
    lst_current,   \* SpecList: parse_rdf_list's `current`
    lst_result,    \* SpecList: parse_rdf_list's `result`
    lst_trail,     \* SpecList: the nodes `current` has been (history)
    lst_pc,        \* SpecList: position in parse_rdf_list
    cmp_graph,     \* SpecCompile: the shapes graph given to parse_shapes
    cmp_nodes,     \* SpecCompile: the shape nodes the loop has still to go through
    cmp_stack,     \* SpecCompile: the calls of parse_shape / parse_property_shape under way
    cmp_pc,        \* SpecCompile: position in parse_shapes
    sq_constraint, \* SpecSparql: the SparqlConstraint
    sq_shape,      \* SpecSparql: the shape the constraint belongs to
    sq_focus,      \* SpecSparql: focus_node
    sq_targets,    \* SpecSparql: the run_once_targets still to go through
    sq_violations, \* SpecSparql: violations
    sq_before,     \* SpecSparql: violations_before
    sq_log,        \* SpecSparql: the queries parsed and executed for the binding (history)
    sq_pc          \* SpecSparql: position in SparqlConstraint::validate

reportVars == <<reports, last_op, merged>>
pathVars == <<graph, path, start, current_nodes, elem_idx, subj_list, results,
              visited, to_visit, expanded, ppc>>
validateVars == <<data_graph, shapes, target_cache, cache_pos, cache_seen, vpc,
                  shape_pc, focus_nodes_vec, focus_reports, shape_reports, report,
                  merge_idx>>
targetVars == <<tgt_graph, tgt_target, sub_visited, sub_to_visit, tgt_set, tpc>>
\* the variables of the specifications of single operations
focusVars == <<fn_graph, fn_shape, fn_focus, fn_values, fn_idx, fn_report, fpc>>
parseVars == <<shapes_graph, shape_nodes, parsed, failed, prs_pc>>
listVars == <<lst_graph, lst_current, lst_result, lst_trail, lst_pc>>
compileVars == <<cmp_graph, cmp_nodes, cmp_stack, cmp_pc>>
sparqlVars == <<sq_constraint, sq_shape, sq_focus, sq_targets, sq_violations, sq_before,
                sq_log, sq_pc>>
restVars == <<listVars, compileVars, sparqlVars>>
unitVars == <<targetVars, focusVars, parseVars, restVars>>
outsideTarget == <<reportVars, pathVars, validateVars, focusVars, parseVars, restVars>>
outsideFocus == <<reportVars, pathVars, validateVars, targetVars, parseVars, restVars>>
outsideParse == <<reportVars, pathVars, validateVars, targetVars, restVars>>
outsideList == <<reportVars, pathVars, validateVars, targetVars, focusVars, parseVars,
                 compileVars, sparqlVars>>
outsideCompile == <<reportVars, pathVars, validateVars, targetVars, focusVars, parseVars,
                    listVars, sparqlVars>>
outsideSparql == <<reportVars, pathVars, validateVars, targetVars, focusVars, parseVars,
                   listVars, compileVars>>
vars == <<reportVars, pathVars, validateVars, unitVars>>

----------------------------------------------------------------------------
(* Bounds *)
MaxResults == 3
NumReports == 2
MaxTriples == 3

----------------------------------------------------------------------------
(* validation/report.rs: ValidationReport *)

\* The results a constraint can hand to a report (abstract ValidationResult values).
ResultValues == {"r1", "r2"}

NewReportNonConforming == [conforms |-> FALSE, results |-> <<>>]

\* ValidationReport::new
NewReport == [conforms |-> TRUE, results |-> <<>>]

\* ValidationReport::add_result
AddResultOp(self, result) ==
    [conforms |-> FALSE, results |-> Append(self.results, result)]

ExtendResultsNoGuard(self, rs) ==
    [conforms |-> FALSE, results |-> self.results \o rs]

\* ValidationReport::extend_results
ExtendResultsOp(self, rs) ==
    IF rs # <<>>
    THEN [conforms |-> FALSE, results |-> self.results \o rs]
    ELSE self

MergeOpOverwrite(self, other) == other

MergeOpOr(self, other) ==
    [conforms |-> self.conforms \/ other.conforms,
     results  |-> self.results \o other.results]

\* ValidationReport::merge
MergeOp(self, other) ==
    [conforms |-> IF ~other.conforms THEN FALSE ELSE self.conforms,
     results  |-> self.results \o other.results]

SeqsUpTo(S, n) == UNION {[1..k -> S] : k \in 0..n}

ReportIdle == reports = <<>> /\ last_op = "none" /\ merged = <<>>

PathIdle ==
    /\ graph = {} /\ path = <<>> /\ start = "none" /\ current_nodes = <<>>
    /\ elem_idx = 0 /\ subj_list = <<>> /\ results = <<>> /\ visited = {}
    /\ to_visit = <<>> /\ expanded = <<>> /\ ppc = "idle"

ValidateIdle ==
    /\ data_graph = {} /\ shapes = <<>> /\ target_cache = <<>> /\ cache_pos = 0
    /\ cache_seen = {} /\ vpc = "idle" /\ shape_pc = <<>> /\ focus_nodes_vec = <<>>
    /\ focus_reports = <<>> /\ shape_reports = <<>> /\ report = <<>>
    /\ merge_idx = 0

TargetIdle ==
    /\ tgt_graph = {} /\ tgt_target = <<>> /\ sub_visited = {} /\ sub_to_visit = <<>>
    /\ tgt_set = {} /\ tpc = "idle"

FocusIdle ==
    /\ fn_graph = {} /\ fn_shape = <<>> /\ fn_focus = "" /\ fn_values = <<>>
    /\ fn_idx = 0 /\ fn_report = <<>> /\ fpc = "idle"

ParseIdle ==
    /\ shapes_graph = {} /\ shape_nodes = {} /\ parsed = <<>> /\ failed = {}
    /\ prs_pc = "idle"

ListIdle ==
    /\ lst_graph = {} /\ lst_current = "" /\ lst_result = <<>> /\ lst_trail = <<>>
    /\ lst_pc = "idle"

CompileIdle ==
    cmp_graph = {} /\ cmp_nodes = {} /\ cmp_stack = <<>> /\ cmp_pc = "idle"

SparqlIdle ==
    /\ sq_constraint = <<>> /\ sq_shape = <<>> /\ sq_focus = "" /\ sq_targets = <<>>
    /\ sq_violations = <<>> /\ sq_before = 0 /\ sq_log = <<>> /\ sq_pc = "idle"

RestIdle == ListIdle /\ CompileIdle /\ SparqlIdle

UnitIdle == TargetIdle /\ FocusIdle /\ ParseIdle /\ RestIdle

ReportInit ==
    /\ reports = [i \in 1..NumReports |-> NewReport]
    /\ last_op = "new"
    /\ merged = <<>>
    /\ PathIdle
    /\ ValidateIdle
    /\ UnitIdle

AddResult(i, r) ==
    /\ Len(reports[i].results) < MaxResults
    /\ reports' = [reports EXCEPT ![i] = AddResultOp(@, r)]
    /\ last_op' = "add_result"
    /\ merged' = <<>>
    /\ UNCHANGED <<pathVars, validateVars, unitVars>>

ExtendResults(i, rs) ==
    /\ Len(reports[i].results) + Len(rs) <= MaxResults
    /\ reports' = [reports EXCEPT ![i] = ExtendResultsOp(@, rs)]
    /\ last_op' = "extend_results"
    /\ merged' = <<>>
    /\ UNCHANGED <<pathVars, validateVars, unitVars>>

\* merge consumes `other`; the slot it came from starts over as a new report.
Merge(i, j) ==
    /\ i # j
    /\ Len(reports[i].results) + Len(reports[j].results) <= MaxResults
    /\ reports' = [reports EXCEPT ![i] = MergeOp(@, reports[j]), ![j] = NewReport]
    /\ last_op' = "merge"
    /\ merged' = [self |-> i, before |-> reports[i], other |-> reports[j]]
    /\ UNCHANGED <<pathVars, validateVars, unitVars>>

ReportNext ==
    \/ \E i \in 1..NumReports, r \in ResultValues : AddResult(i, r)
    \/ \E i \in 1..NumReports, rs \in SeqsUpTo(ResultValues, 2) : ExtendResults(i, rs)
    \/ \E i, j \in 1..NumReports : Merge(i, j)

SpecReport == ReportInit /\ [][ReportNext]_vars

\* C1: every report built from new() by add_result, extend_results and merge
\* has conforms true exactly when its results list is empty.
C1_ConformsIffEmpty ==
    \A i \in DOMAIN reports : reports[i].conforms <=> reports[i].results = <<>>

\* C12 as stated: merge sets the receiver's conforms flag to the OR of the two
\* conforms flags and appends other's results after the receiver's.
C12_MergeOrsConforms ==
    last_op = "merge" =>
        /\ reports[merged.self].conforms
              = (merged.before.conforms \/ merged.other.conforms)
        /\ reports[merged.self].results = merged.before.results \o merged.other.results

\* C12, amended: merge sets the receiver's conforms flag to the AND of the two
\* conforms flags (false as soon as other does not conform, unchanged
\* otherwise) and appends other's results after the receiver's.
C12_MergeAndsConforms ==
    last_op = "merge" =>
        /\ reports[merged.self].conforms
              = (merged.before.conforms /\ merged.other.conforms)
        /\ reports[merged.self].results = merged.before.results \o merged.other.results

\* a conforming receiver has just been merged with a report of two results
C12_Witness ==
    /\ last_op = "merge"
    /\ merged.before.conforms
    /\ ~merged.other.conforms
    /\ Len(merged.other.results) = 2
    /\ ~reports[merged.self].conforms

\* C1 witness: a merge of two non-empty reports has just produced a
\* non-conforming report, and the other report is empty and conforming.
C1_Witness ==
    /\ last_op = "merge"
    /\ Len(reports[1].results) = MaxResults /\ ~reports[1].conforms
    /\ reports[2].results = <<>> /\ reports[2].conforms

----------------------------------------------------------------------------
(* RDF terms and graphs (oxigraph model): a graph is a set of triples       *)
(* <<subject, predicate, object>>; iterating a graph yields its triples in  *)
(* the order of its index, modelled by the order of TermOrder.              *)

Nodes == {"a", "b", "c"}
\* a literal is written by its lexical form (Literal::value)
Literals == {"l", "abc", "1", "2", "10", "NaN", "true", "false"}
Blanks == {"_:k", "_:l", "_:b"}
TermOrder ==
    <<"a", "b", "c", "l", "abc", "1", "2", "10", "NaN", "true", "false", "p", "q",
      "r", "C", "D", "T", "L", "S1", "S2", "S3", "PN", "name", "extra",
      "_:k", "_:l", "_:b", "type", "subClassOf", "subPropertyOf",
      "rdf:first", "rdf:rest", "rdf:nil", "sh:NodeShape", "sh:PropertyShape",
      "sh:Shape", "sh:path", "sh:property", "sh:closed", "sh:ignoredProperties",
      "sh:targetNode", "sh:targetClass", "sh:minCount", "sh:node",
      "sh:inversePath", "sh:not">>

IsLiteral(t) == t \in Literals
IsBlank(t) == t \in Blanks

\* Option<T>: None is the empty sequence, Some(x) the sequence of x alone
None == <<>>
Some(x) == <<x>>

\* utils::term_to_named_or_blank
TermToNamedOrBlank(t) == IF IsLiteral(t) THEN None ELSE Some(t)

RankTable ==
    [t \in {TermOrder[i] : i \in 1..Len(TermOrder)} |->
        CHOOSE i \in 1..Len(TermOrder) : TermOrder[i] = t]
Rank(t) == RankTable[t]

TripleLess(x, y) ==
    \/ Rank(x[1]) < Rank(y[1])
    \/ x[1] = y[1] /\ Rank(x[2]) < Rank(y[2])
    \/ x[1] = y[1] /\ x[2] = y[2] /\ Rank(x[3]) < Rank(y[3])

RECURSIVE GraphIter(_)
GraphIter(g) ==
    IF g = {} THEN <<>>
    ELSE LET m == CHOOSE x \in g : \A y \in g : y = x \/ TripleLess(x, y)
         IN <<m>> \o GraphIter(g \ {m})

RECURSIVE SelectSeq2(_, _, _)
\* the objects (pos = 3) or subjects (pos = 1) of the triples of `triples`
\* that carry `pred` and have `node` at the other end, in iteration order
SelectSeq2(triples, node, pred_pos) ==
    IF triples = <<>> THEN <<>>
    ELSE LET t == Head(triples)
             from == IF pred_pos[2] = 3 THEN 1 ELSE 3
             hit == t[from] = node /\ t[2] = pred_pos[1]
         IN (IF hit THEN <<t[pred_pos[2]]>> ELSE <<>>)
            \o SelectSeq2(Tail(triples), node, pred_pos)

SeqToSet(s) == {s[i] : i \in 1..Len(s)}

\* a filter that lets every result through
KeepDuplicates(s) == s

\* the HashSet-insert filter closing resolve_element: first occurrences only
RemoveDuplicates(s) ==
    LET keep == {i \in 1..Len(s) : \A j \in 1..(i - 1) : s[j] # s[i]}
        F[i \in 0..Len(s)] ==
            IF i = 0 THEN <<>>
            ELSE IF i \in keep THEN Append(F[i - 1], s[i]) ELSE F[i - 1]
    IN F[Len(s)]

----------------------------------------------------------------------------
(* core/path.rs: PathElement and Path::resolve_element *)

Iri(p) == [kind |-> "Iri", iri |-> p]
Inverse(p) == [kind |-> "Inverse", iri |-> p]
ZeroOrMore(e) == [kind |-> "ZeroOrMore", elem |-> e]
OneOrMore(e) == [kind |-> "OneOrMore", elem |-> e]
ZeroOrOne(e) == [kind |-> "ZeroOrOne", elem |-> e]
Alternative(es) == [kind |-> "Alternative", alts |-> es]

IsClosure(e) == e.kind \in {"ZeroOrMore", "OneOrMore"}

\* the filter_map building `subjects`: literals are dropped
Subjects(nodes) == SelectSeq(nodes, LAMBDA n : ~IsLiteral(n))

InitialVisitedEmpty(subject) == {}

\* visited.insert(subject.into()) before the loop (lines 139-140, 156-157)
InitialVisited(subject) == {subject}

ZeroOrMoreSeedEmpty(subject) == <<>>

\* results.push(subject.into()) of ZeroOrMore (line 138)
ZeroOrMoreSeed(subject) == <<subject>>

\* `for next in next_nodes { if visited.insert(next) { results.push(next);
\* to_visit.push(next); } }`
RECURSIVE VisitNext(_, _)
VisitNext(next_nodes, st) ==
    IF next_nodes = <<>> THEN st
    ELSE LET next == Head(next_nodes)
         IN VisitNext(Tail(next_nodes),
                IF next \notin st.visited
                THEN [visited  |-> st.visited \cup {next},
                      results  |-> Append(st.results, next),
                      to_visit |-> Append(st.to_visit, next)]
                ELSE st)

RECURSIVE ResolveElement(_, _, _)
RECURSIVE ClosureLoop(_, _, _)
RECURSIVE ResolveSubjects(_, _, _)

\* one iteration of `while let Some(current) = to_visit.pop()`
LoopBody(g, inner, st) ==
    LET n == Len(st.to_visit)
        current == st.to_visit[n]
        popped == [st EXCEPT !.to_visit = SubSeq(st.to_visit, 1, n - 1)]
    IN VisitNext(ResolveElement(g, inner, <<current>>), popped)

ClosureLoop(g, inner, st) ==
    IF st.to_visit = <<>> THEN st.results
    ELSE ClosureLoop(g, inner, LoopBody(g, inner, st))

\* the state a closure element starts its loop in, for one subject
ClosureStart(element, subject, sofar) ==
    [visited  |-> InitialVisited(subject),
     to_visit |-> <<subject>>,
     results  |-> IF element.kind = "ZeroOrMore"
                  THEN sofar \o ZeroOrMoreSeed(subject) ELSE sofar]

RECURSIVE ResolveAlternatives(_, _, _)
ResolveAlternatives(g, alts, subject) ==
    IF alts = <<>> THEN <<>>
    ELSE ResolveElement(g, Head(alts), <<subject>>)
         \o ResolveAlternatives(g, Tail(alts), subject)

\* the body of `for subject in subjects`: what one subject adds to results
ResolveSubject(g, element, subject, sofar) ==
    CASE element.kind = "Iri" ->
            sofar \o SelectSeq2(GraphIter(g), subject, <<element.iri, 3>>)
      [] element.kind = "Inverse" ->
            sofar \o SelectSeq2(GraphIter(g), subject, <<element.iri, 1>>)
      [] element.kind \in {"ZeroOrMore", "OneOrMore"} ->
            ClosureLoop(g, element.elem, ClosureStart(element, subject, sofar))
      [] element.kind = "ZeroOrOne" ->
            sofar \o <<subject>> \o ResolveElement(g, element.elem, <<subject>>)
      [] element.kind = "Alternative" ->
            sofar \o ResolveAlternatives(g, element.alts, subject)

ResolveSubjects(g, element, subjects) ==
    IF subjects = <<>> THEN <<>>
    ELSE LET n == Len(subjects)
         IN ResolveSubject(g, element, subjects[n],
                           ResolveSubjects(g, element, SubSeq(subjects, 1, n - 1)))

ResolveElement(g, element, nodes) ==
    RemoveDuplicates(ResolveSubjects(g, element, Subjects(nodes)))

RECURSIVE ApplyElements(_, _, _)
ApplyElements(g, elements, nodes) ==
    IF elements = <<>> THEN nodes
    ELSE ApplyElements(g, Tail(elements), ResolveElement(g, Head(elements), nodes))

\* Path::resolve_path_for_given_node
ResolvePathForGivenNode(p, g, node) == ApplyElements(g, p, <<node>>)

----------------------------------------------------------------------------
(* core/target.rs and utils.rs: target resolution *)

RdfType == "type"
SubClassOf == "subClassOf"
SubPropertyOf == "subPropertyOf"

TargetNode(t) == [kind |-> "Node", term |-> t]
TargetClass(c) == [kind |-> "Class", term |-> c]
TargetSubjectsOf(p) == [kind |-> "SubjectsOf", term |-> p]
TargetObjectsOf(p) == [kind |-> "ObjectsOf", term |-> p]
TargetAdvanced(n) == [kind |-> "Advanced", term |-> n]

\* Graph::subjects_for_predicate_object, in iteration order
SubjectsForPredicateObject(g, p, o) == SelectSeq2(GraphIter(g), o, <<p, 1>>)

\* Graph::triples_for_predicate
TriplesForPredicate(g, p) == SelectSeq(GraphIter(g), LAMBDA t : t[2] = p)

\* Graph::triples_for_subject
TriplesForSubject(g, s) == SelectSeq(GraphIter(g), LAMBDA t : t[1] = s)

\* the loop of collect_all_subclasses / collect_all_subproperties:
\* `while let Some(current) = to_visit.pop() { if visited.insert(current) {
\* to_visit.extend(subjects_for_predicate_object(pred, current)) } }`;
\* named_only is the filter_map that subproperties apply to what they push
RECURSIVE CollectDown(_, _, _, _, _)
CollectDown(g, pred, named_only, seen, stack) ==
    IF stack = <<>> THEN seen
    ELSE LET n == Len(stack)
             current == stack[n]
             rest == SubSeq(stack, 1, n - 1)
             below == SubjectsForPredicateObject(g, pred, current)
             pushed == IF named_only
                       THEN SelectSeq(below, LAMBDA x : ~IsBlank(x)) ELSE below
         IN IF current \in seen
            THEN CollectDown(g, pred, named_only, seen, rest)
            ELSE CollectDown(g, pred, named_only, seen \cup {current}, rest \o pushed)

\* utils::collect_all_subclasses: named nodes only are returned
CollectAllSubclasses(node, g) ==
    {c \in CollectDown(g, SubClassOf, FALSE, {}, <<node>>) : ~IsBlank(c)}

\* utils::collect_all_subproperties
CollectAllSubproperties(node, g) == CollectDown(g, SubPropertyOf, TRUE, {}, <<node>>)

\* Target::resolve_target_for_given_graph
ResolveTargetForGivenGraph(target, g) ==
    CASE target.kind = "Node" -> {target.term}
      [] target.kind = "Class" ->
            UNION {SeqToSet(SubjectsForPredicateObject(g, RdfType, c)) :
                     c \in CollectAllSubclasses(target.term, g)}
      [] target.kind = "SubjectsOf" ->
            UNION {{t[1] : t \in SeqToSet(TriplesForPredicate(g, sp))} :
                     sp \in CollectAllSubproperties(target.term, g)}
      [] target.kind = "ObjectsOf" ->
            UNION {{t[3] : t \in {u \in SeqToSet(TriplesForPredicate(g, sp)) :
                                    ~IsLiteral(u[3])}} :
                     sp \in CollectAllSubproperties(target.term, g)}
      [] target.kind = "Advanced" -> {}

CacheKeyTermOnly(target) == target.term

\* the key a Target is stored under in the TargetResolutionCache (derived Hash/Eq)
CacheKey(target) == target

\* cache.entry(target).or_insert_with(|| target.resolve_target_for_given_graph(..))
CacheInsert(cache, target, g) ==
    IF CacheKey(target) \in DOMAIN cache THEN cache
    ELSE cache @@ (CacheKey(target) :> ResolveTargetForGivenGraph(target, g))

\* the focus-node set of validate_with_target_cache (lines 179-187)
FocusNodes(shape, cache, g) ==
    UNION {IF CacheKey(t) \in DOMAIN cache
           THEN cache[CacheKey(t)]
           ELSE ResolveTargetForGivenGraph(t, g) : t \in shape.targets}

EmptyCache == <<>>

----------------------------------------------------------------------------
(* core/constraints.rs and core/shape.rs: constraints and shapes *)

MinCount(n) == [kind |-> "MinCount", n |-> n]
MaxCount(n) == [kind |-> "MaxCount", n |-> n]
HasValue(t) == [kind |-> "HasValue", term |-> t]
Class(c) == [kind |-> "Class", class |-> c]
Equals(p) == [kind |-> "Equals", path |-> p]
LessThan(p) == [kind |-> "LessThan", path |-> p]
LessThanOrEquals(p) == [kind |-> "LessThanOrEquals", path |-> p]
Or(shapes_list) == [kind |-> "Or", shapes |-> shapes_list]
And(shapes_list) == [kind |-> "And", shapes |-> shapes_list]
Xone(shapes_list) == [kind |-> "Xone", shapes |-> shapes_list]
Not(sh) == [kind |-> "Not", shape |-> sh]
Node(sh) == [kind |-> "Node", shape |-> sh]
MinExclusive(t) == [kind |-> "MinExclusive", term |-> t]
MinInclusive(t) == [kind |-> "MinInclusive", term |-> t]
MaxExclusive(t) == [kind |-> "MaxExclusive", term |-> t]
MaxInclusive(t) == [kind |-> "MaxInclusive", term |-> t]
QualifiedValueShape(sh, min, max, disjoint) ==
    [kind |-> "QualifiedValueShape", shape |-> sh, qualified_min_count |-> min,
     qualified_max_count |-> max, qualified_value_shapes_disjoint |-> disjoint]

\* a SparqlConstraint: `query` names the query text; what the text contains and
\* what the query engine answers for it is given by the operators below
Sparql(query, executable, component) ==
    [kind |-> "Sparql", query |-> query, executable |-> executable,
     source_constraint_component |-> component]

\* Shape: path and closed are Options; `closed` holds the ignored properties
Shape(node, p, targets, deactivated, constraints, closed, property_shapes) ==
    [node |-> node, path |-> p, targets |-> targets, deactivated |-> deactivated,
     constraints |-> constraints, closed |-> closed,
     property_shapes |-> property_shapes]

\* a ValidationResult as Shape::build_validation_result fills it
BuildValidationResult(shape, focus_node, value, component, message, detail) ==
    [focus_node |-> focus_node, source_shape |-> shape.node,
     source_constraint_component |-> component, constraint_detail |-> detail,
     result_path |-> shape.path, value |-> value, message |-> message,
     details |-> <<>>]

\* ViolationBuilder::details: the nested results carried by a result
WithDetails(result, nested_results) == [result EXCEPT !.details = nested_results]

----------------------------------------------------------------------------
(* validation/constraints/sparql.rs: the SPARQL constraint.  The query      *)
(* engine is outside the validator: a query text has a fixed answer for     *)
(* each binding, given here for the query texts of the model.               *)

\* unsupported_prebinding_construct(query_text, prefixes) is Some(reason)
UnsupportedPrebinding(query) == query = "q_minus"

\* query_text.contains("$this") || query_text.contains("?this")
HasThisVar(query) == query \in {"q_select", "q_ask", "q_union", "q_this_eval_error"}

\* query_text contains "bound($this", "bound(?this" or "UNION"
HasBoundOrUnion(query) == query = "q_union"

\* evaluator.parse_query(&bound_query) and prepared.on_store(..).execute() for
\* the query with the VALUES block injected: a parse error, an execution
\* error, the solutions (each Ok or Err) or a boolean
PrimaryRun(query, focus_node, maybe_value) ==
    CASE query = "q_parse_error" -> [parse |-> "err"]
      [] query = "q_exec_error" -> [parse |-> "ok", result |-> "err"]
      [] query \in {"q_eval_error", "q_this_eval_error"} ->
            [parse |-> "ok", result |-> "solutions", solutions |-> <<"err">>]
      [] query = "q_select" ->
            [parse |-> "ok", result |-> "solutions",
             solutions |-> IF focus_node = "a" THEN <<"ok", "err", "ok">> ELSE <<>>]
      [] query = "q_ask" ->
            [parse |-> "ok", result |-> "boolean", boolean |-> focus_node # "b"]
      [] OTHER -> [parse |-> "ok", result |-> "solutions", solutions |-> <<>>]

\* the same for the query rewritten by rewrite_this_binding_query
FallbackRun(query, focus_node) ==
    CASE query = "q_select" ->
            [parse |-> "ok", result |-> "solutions",
             solutions |-> IF focus_node = "b" THEN <<"ok">> ELSE <<>>]
      [] query = "q_ask" -> [parse |-> "err"]
      [] OTHER -> [parse |-> "ok", result |-> "solutions", solutions |-> <<>>]

SparqlComponent == "SPARQLConstraintComponent"

\* constraint_component(c)
ConstraintComponent(c) ==
    IF c.source_constraint_component # None
    THEN c.source_constraint_component[1] ELSE SparqlComponent

\* the violations the match on (&self.executable, results) pushes
SparqlMatch(c, shape, focus_node, maybe_value, run, tag, with_error_arm) ==
    CASE c.executable = "Select" /\ run.result = "solutions" ->
            [i \in 1..Len(SelectSeq(run.solutions, LAMBDA x : x = "ok")) |->
                BuildValidationResult(shape, focus_node, maybe_value,
                    ConstraintComponent(c), "SPARQL SELECT constraint violation",
                    "SPARQL SELECT" \o tag \o ": " \o c.query)]
      [] c.executable = "Ask" /\ run.result = "boolean" ->
            IF ~run.boolean
            THEN <<BuildValidationResult(shape, focus_node, maybe_value,
                       ConstraintComponent(c), "SPARQL ASK constraint violation",
                       "SPARQL ASK" \o tag \o ": " \o c.query)>>
            ELSE <<>>
      [] run.result = "err" /\ with_error_arm ->
            <<BuildValidationResult(shape, focus_node, maybe_value,
                  ConstraintComponent(c), "SPARQL execution error",
                  "SPARQL query: " \o c.query)>>
      [] OTHER -> <<>>

\* the Err arm of evaluator.parse_query (lines 219-229)
SparqlParseError(c, shape, focus_node, maybe_value) ==
    <<BuildValidationResult(shape, focus_node, maybe_value, ConstraintComponent(c),
                            "SPARQL parse error", "SPARQL query: " \o c.query)>>

\* one iteration of `for maybe_value in run_once_targets`
SparqlRunOnce(c, shape, focus_node, maybe_value) ==
    LET run == PrimaryRun(c.query, focus_node, maybe_value)
    IN IF run.parse = "err"
       THEN SparqlParseError(c, shape, focus_node, maybe_value)
       ELSE LET primary == SparqlMatch(c, shape, focus_node, maybe_value, run, "", TRUE)
                fb == FallbackRun(c.query, focus_node)
                fallback ==
                    IF fb.parse = "ok"
                    THEN SparqlMatch(c, shape, focus_node, maybe_value, fb,
                                     " (fallback)", FALSE)
                    ELSE <<>>
                unresolved ==
                    IF fallback = <<>> /\ HasBoundOrUnion(c.query)
                    THEN <<BuildValidationResult(shape, focus_node, maybe_value,
                               ConstraintComponent(c), "SPARQL pre-binding violation",
                               "SPARQL pre-binding fallback: " \o c.query)>>
                    ELSE <<>>
            IN IF primary = <<>> /\ HasThisVar(c.query)
               THEN fallback \o unresolved
               ELSE primary

RECURSIVE SparqlRunAll(_, _, _, _)
SparqlRunAll(c, shape, focus_node, run_once_targets) ==
    IF run_once_targets = <<>> THEN <<>>
    ELSE SparqlRunOnce(c, shape, focus_node, Head(run_once_targets))
         \o SparqlRunAll(c, shape, focus_node, Tail(run_once_targets))

\* the run_once_targets SparqlConstraint::validate builds
RunOnceTargets(c, shape, focus_node, value_nodes) ==
    IF shape.path # None
    THEN IF value_nodes = <<>> THEN <<None>>
         ELSE [i \in 1..Len(value_nodes) |-> Some(value_nodes[i])]
    ELSE IF c.source_constraint_component # None THEN <<Some(focus_node)>>
    ELSE <<None>>

\* SparqlConstraint::validate
SparqlValidate(c, shape, focus_node, value_nodes) ==
    LET run_once_targets == RunOnceTargets(c, shape, focus_node, value_nodes)
    IN IF UnsupportedPrebinding(c.query)
       THEN <<BuildValidationResult(shape, focus_node,
                  IF value_nodes = <<>> THEN None ELSE Some(value_nodes[1]),
                  ConstraintComponent(c), "SPARQL pre-binding violation",
                  "unsupported pre-binding construct: " \o c.query)>>
       ELSE SparqlRunAll(c, shape, focus_node, run_once_targets)

----------------------------------------------------------------------------
(* validation/constraints/*.rs and validation/mod.rs: validating one focus  *)
(* node.  Each operator returns the violations the code pushes, in order.   *)

\* `report.conforms = false; report.results.push(violation)` for each violation
PushViolations(node_report, violations) ==
    IF violations = <<>> THEN node_report
    ELSE [conforms |-> FALSE, results |-> node_report.results \o violations]

\* Shape::get_value_nodes
GetValueNodes(g, shape, focus_node) ==
    IF shape.path # None
    THEN IF TermToNamedOrBlank(focus_node) # None
         THEN ResolvePathForGivenNode(shape.path[1], g, focus_node)
         ELSE <<>>
    ELSE <<focus_node>>

\* str::parse::<f64> on a lexical form: Some(number) for Ok, None for Err;
\* a number is NaN or a finite value
ParseF64(lexical) ==
    CASE lexical = "1" -> Some([nan |-> FALSE, n |-> 1])
      [] lexical = "2" -> Some([nan |-> FALSE, n |-> 2])
      [] lexical = "10" -> Some([nan |-> FALSE, n |-> 10])
      [] lexical = "NaN" -> Some([nan |-> TRUE, n |-> 0])
      [] OTHER -> None

\* the f64 operators < and >: false as soon as one side is NaN
F64Less(x, y) == ~x.nan /\ ~y.nan /\ x.n < y.n
F64Greater(x, y) == ~x.nan /\ ~y.nan /\ x.n > y.n

\* the byte order of the lexical forms (str::cmp)
LexicalOrder == <<"1", "10", "2", "NaN", "abc", "false", "l", "true">>
LexicalRank(lexical) ==
    CHOOSE i \in 1..Len(LexicalOrder) : LexicalOrder[i] = lexical
StrCmp(x, y) ==
    IF LexicalRank(x) < LexicalRank(y) THEN -1
    ELSE IF LexicalRank(x) > LexicalRank(y) THEN 1 ELSE 0

\* the closures handed to compare_values, by name
Predicate(name, cmp) ==
    CASE name = "lt" -> cmp < 0
      [] name = "le" -> cmp <= 0
      [] name = "gt" -> cmp > 0
      [] name = "ge" -> cmp >= 0

\* utils::compare_values
CompareValues(x, y, predicate) ==
    IF IsLiteral(x) /\ IsLiteral(y)
    THEN LET num_a == ParseF64(x)
             num_b == ParseF64(y)
         IN IF num_a # None /\ num_b # None
            THEN IF F64Less(num_a[1], num_b[1]) THEN Predicate(predicate, -1)
                 ELSE IF F64Greater(num_a[1], num_b[1]) THEN Predicate(predicate, 1)
                 ELSE Predicate(predicate, 0)
            ELSE IF num_a = None /\ num_b = None
            THEN Predicate(predicate, StrCmp(x, y))
            ELSE FALSE
    ELSE FALSE

MinCountValidate(c, shape, focus_node, value_nodes) ==
    IF Len(value_nodes) < c.n
    THEN <<BuildValidationResult(shape, focus_node, None, "MinCountConstraintComponent",
               "Property has " \o ToString(Len(value_nodes)) \o " values (min)",
               "sh:minCount " \o ToString(c.n))>>
    ELSE <<>>

MaxCountValidate(c, shape, focus_node, value_nodes) ==
    IF Len(value_nodes) > c.n
    THEN <<BuildValidationResult(shape, focus_node, None, "MaxCountConstraintComponent",
               "Property has " \o ToString(Len(value_nodes)) \o " values (max)",
               "sh:maxCount " \o ToString(c.n))>>
    ELSE <<>>

HasValueValidate(c, shape, focus_node, value_nodes) ==
    IF c.term \notin SeqToSet(value_nodes)
    THEN <<BuildValidationResult(shape, focus_node, None, "HasValueConstraintComponent",
               "Required value is not present", "sh:hasValue " \o c.term)>>
    ELSE <<>>

\* ClassConstraint::validate: a direct rdf:type triple is looked for
RECURSIVE ClassValidate(_, _, _, _, _)
ClassValidate(g, c, shape, focus_node, value_nodes) ==
    IF value_nodes = <<>> THEN <<>>
    ELSE LET value_node == Head(value_nodes)
             is_instance == \E t \in SeqToSet(TriplesForSubject(g, value_node)) :
                                t[2] = RdfType /\ t[3] = c.class
             here ==
                IF TermToNamedOrBlank(value_node) # None
                THEN IF ~is_instance
                     THEN <<BuildValidationResult(shape, focus_node, Some(value_node),
                                "ClassConstraintComponent",
                                "Value is not an instance of class",
                                "sh:class " \o c.class)>>
                     ELSE <<>>
                ELSE <<BuildValidationResult(shape, focus_node, Some(value_node),
                           "ClassConstraintComponent",
                           "Value must be a node to check class membership",
                           "sh:class " \o c.class)>>
         IN here \o ClassValidate(g, c, shape, focus_node, Tail(value_nodes))

\* utils::extract_direct_predicates
RECURSIVE ExtractDirectPredicates(_)
ExtractDirectPredicates(elements) ==
    IF elements = <<>> THEN <<>>
    ELSE LET element == Head(elements)
             here ==
                CASE element.kind = "Iri" -> <<element.iri>>
                  [] element.kind = "Alternative" ->
                        LET iris == SelectSeq(element.alts, LAMBDA a : a.kind = "Iri")
                        IN [i \in 1..Len(iris) |-> iris[i].iri]
                  [] OTHER -> <<>>
         IN here \o ExtractDirectPredicates(Tail(elements))

\* the qualifiedMinCount / qualifiedMaxCount violations for a conforming count
QualifiedCountViolations(c, shape, focus_node, count) ==
    (IF c.qualified_min_count # None /\ count < c.qualified_min_count[1]
     THEN <<BuildValidationResult(shape, focus_node, None,
                "QualifiedMinCountConstraintComponent",
                "Qualified value shape: " \o ToString(count) \o " values conform (min)",
                "sh:qualifiedMinCount " \o ToString(c.qualified_min_count[1]))>>
     ELSE <<>>)
    \o
    (IF c.qualified_max_count # None /\ count > c.qualified_max_count[1]
     THEN <<BuildValidationResult(shape, focus_node, None,
                "QualifiedMaxCountConstraintComponent",
                "Qualified value shape: " \o ToString(count) \o " values conform (max)",
                "sh:qualifiedMaxCount " \o ToString(c.qualified_max_count[1]))>>
     ELSE <<>>)

\* Shape::validate_closed_constraint
ValidateClosedConstraint(g, shape, focus_node) ==
    IF shape.closed = None \/ TermToNamedOrBlank(focus_node) = None THEN <<>>
    ELSE LET with_path == SelectSeq(shape.property_shapes, LAMBDA ps : ps.path # None)
             allowed_properties ==
                shape.closed[1].ignored_properties
                \cup UNION {SeqToSet(ExtractDirectPredicates(with_path[i].path[1])) :
                              i \in 1..Len(with_path)}
             offending == SelectSeq(TriplesForSubject(g, focus_node),
                                    LAMBDA t : t[2] \notin allowed_properties)
         IN [i \in 1..Len(offending) |->
                BuildValidationResult(shape, focus_node, Some(offending[i][3]),
                    "ClosedConstraintComponent",
                    "Property " \o offending[i][2] \o " is not allowed (closed shape)",
                    "")]

RECURSIVE ValidateFocusNode(_, _, _)
RECURSIVE ValidateConstraint(_, _, _, _, _)
RECURSIVE ValidateNestedPropertyShapes(_, _, _)
RECURSIVE ValidatePropertyShapeWithDisjoint(_, _, _, _)
RECURSIVE DisjointConstraintLoop(_, _, _, _, _, _, _)

\* Shape::validate_node_report: the only nested entry that looks at `deactivated`
ValidateNodeReport(g, shape, node) ==
    IF shape.deactivated THEN NewReport
    ELSE PushViolations(NewReport, ValidateFocusNode(g, shape, node))

\* Shape::validate_node
ValidateNode(g, shape, node) == ValidateNodeReport(g, shape, node).conforms

\* a QualifiedValueShapeConstraint::validate that counts for a disjoint
\* qualified value shape as well
QualifiedValueShapeCounts(g, c, shape, focus_node, value_nodes) ==
    LET conforming_count ==
            Cardinality({i \in 1..Len(value_nodes) :
                /\ TermToNamedOrBlank(value_nodes[i]) # None
                /\ ValidateNode(g, c.shape, value_nodes[i])})
    IN QualifiedCountViolations(c, shape, focus_node, conforming_count)

\* QualifiedValueShapeConstraint::validate
QualifiedValueShapeValidate(g, c, shape, focus_node, value_nodes) ==
    IF c.qualified_value_shapes_disjoint THEN <<>>
    ELSE LET conforming_count ==
                Cardinality({i \in 1..Len(value_nodes) :
                    /\ TermToNamedOrBlank(value_nodes[i]) # None
                    /\ ValidateNode(g, c.shape, value_nodes[i])})
         IN QualifiedCountViolations(c, shape, focus_node, conforming_count)

\* the members of a HashSet of terms in the order they are iterated; the order
\* of a HashSet is arbitrary, the order of the terms stands in for it
RECURSIVE HashSetIter(_)
HashSetIter(set) ==
    IF set = {} THEN <<>>
    ELSE LET m == CHOOSE x \in set : \A y \in set : Rank(x) <= Rank(y)
         IN <<m>> \o HashSetIter(set \ {m})

\* EqualsConstraint::validate
EqualsValidate(g, c, shape, focus_node, value_nodes) ==
    IF TermToNamedOrBlank(focus_node) = None THEN <<>>
    ELSE LET other_values == SeqToSet(ResolvePathForGivenNode(c.path, g, focus_node))
             current_values == SeqToSet(value_nodes)
             others == HashSetIter(other_values)
             differing == SelectSeq(others, LAMBDA o : focus_node # o)
         IN (IF shape.path # None /\ current_values # other_values
             THEN <<BuildValidationResult(shape, focus_node, None,
                        "EqualsConstraintComponent",
                        "Values do not equal values of property", "sh:equals")>>
             ELSE <<>>)
            \o
            (IF other_values = {}
             THEN <<BuildValidationResult(shape, focus_node, None,
                        "EqualsConstraintComponent",
                        "Focus node does not equal (no values of property)",
                        "sh:equals")>>
             ELSE [i \in 1..Len(differing) |->
                     BuildValidationResult(shape, focus_node, Some(differing[i]),
                         "EqualsConstraintComponent",
                         "Focus node does not equal value of property",
                         "sh:equals")])

\* the loop shared by LessThanConstraint::validate (predicate "lt") and
\* LessThanOrEqualsConstraint::validate (predicate "le")
LessThanLoop(g, c, shape, focus_node, value_nodes, predicate, component, message,
             detail) ==
    IF TermToNamedOrBlank(focus_node) = None THEN <<>>
    ELSE LET other_values == ResolvePathForGivenNode(c.path, g, focus_node)
             nodes_to_check == IF shape.path # None THEN value_nodes
                               ELSE <<focus_node>>
             found_valid(node) ==
                \E k \in 1..Len(other_values) :
                    CompareValues(node, other_values[k], predicate)
             failing == SelectSeq(nodes_to_check,
                            LAMBDA node : ~found_valid(node) /\ other_values # <<>>)
         IN [i \in 1..Len(failing) |->
                BuildValidationResult(shape, focus_node, Some(failing[i]), component,
                                      message, detail)]

\* LessThanConstraint::validate
LessThanValidate(g, c, shape, focus_node, value_nodes) ==
    LessThanLoop(g, c, shape, focus_node, value_nodes, "lt",
                 "LessThanConstraintComponent",
                 "Value is not less than values of property", "sh:lessThan")

\* LessThanOrEqualsConstraint::validate
LessThanOrEqualsValidate(g, c, shape, focus_node, value_nodes) ==
    LessThanLoop(g, c, shape, focus_node, value_nodes, "le",
                 "LessThanOrEqualsConstraintComponent",
                 "Value is not less than or equal to values of property",
                 "sh:lessThanOrEquals")

\* the loop of MinExclusive-, MinInclusive-, MaxExclusive- and
\* MaxInclusiveConstraint::validate: one violation per value node that fails
\* compare_values against the bound
RangeValidate(c, shape, focus_node, value_nodes, predicate, component, message,
              detail) ==
    LET failing == SelectSeq(value_nodes,
                       LAMBDA v : ~CompareValues(v, c.term, predicate))
    IN [i \in 1..Len(failing) |->
           BuildValidationResult(shape, focus_node, Some(failing[i]), component,
                                 message \o " " \o c.term, detail \o " " \o c.term)]

\* OrBranches keeping the results of the last failing shape only
RECURSIVE OrBranchesLastOnly(_, _, _)
OrBranchesLastOnly(g, nested_shapes, value_node) ==
    IF nested_shapes = <<>> THEN [any_conforms |-> FALSE, all_nested_results |-> <<>>]
    ELSE LET nested_report ==
                PushViolations(NewReport,
                               ValidateFocusNode(g, Head(nested_shapes), value_node))
             rest == OrBranchesLastOnly(g, Tail(nested_shapes), value_node)
         IN IF nested_report.conforms
            THEN [any_conforms |-> TRUE, all_nested_results |-> <<>>]
            ELSE [any_conforms |-> rest.any_conforms,
                  all_nested_results |->
                      IF Len(nested_shapes) = 1 THEN nested_report.results
                      ELSE rest.all_nested_results]

\* the loop over the shapes of an OrConstraint for one value node: it stops at
\* the first shape the value node conforms to
RECURSIVE OrBranches(_, _, _)
OrBranches(g, nested_shapes, value_node) ==
    IF nested_shapes = <<>> THEN [any_conforms |-> FALSE, all_nested_results |-> <<>>]
    ELSE LET nested_report ==
                PushViolations(NewReport,
                               ValidateFocusNode(g, Head(nested_shapes), value_node))
             rest == OrBranches(g, Tail(nested_shapes), value_node)
         IN IF nested_report.conforms
            THEN [any_conforms |-> TRUE, all_nested_results |-> <<>>]
            ELSE [any_conforms |-> rest.any_conforms,
                  all_nested_results |->
                      nested_report.results \o rest.all_nested_results]

\* OrConstraint::validate
RECURSIVE OrValidate(_, _, _, _, _)
OrValidate(g, c, shape, focus_node, value_nodes) ==
    IF value_nodes = <<>> THEN <<>>
    ELSE LET value_node == Head(value_nodes)
             branches == OrBranches(g, c.shapes, value_node)
         IN (IF ~branches.any_conforms
             THEN <<WithDetails(
                        BuildValidationResult(shape, focus_node, Some(value_node),
                            "OrConstraintComponent",
                            "Value does not conform to any shape in sh:or",
                            "sh:or with " \o ToString(Len(c.shapes)) \o " shapes"),
                        branches.all_nested_results)>>
             ELSE <<>>)
            \o OrValidate(g, c, shape, focus_node, Tail(value_nodes))

\* `failed_shapes.join(", ")` and `conforming_shapes.join(", ")`
JoinNames(names) ==
    LET F[i \in 0..Len(names)] ==
            IF i = 0 THEN ""
            ELSE IF i = 1 THEN names[1]
            ELSE F[i - 1] \o ", " \o names[i]
    IN F[Len(names)]

\* the loop over the shapes of an AndConstraint for one value node: every
\* shape is evaluated with validate_focus_node on a report of its own
RECURSIVE AndBranches(_, _, _)
AndBranches(g, nested_shapes, value_node) ==
    IF nested_shapes = <<>> THEN [failed_shapes |-> <<>>, all_nested_results |-> <<>>]
    ELSE LET nested_report ==
                PushViolations(NewReport,
                               ValidateFocusNode(g, Head(nested_shapes), value_node))
             rest == AndBranches(g, Tail(nested_shapes), value_node)
         IN IF ~nested_report.conforms
            THEN [failed_shapes |-> <<Head(nested_shapes).node>> \o rest.failed_shapes,
                  all_nested_results |->
                      nested_report.results \o rest.all_nested_results]
            ELSE rest

\* an AndConstraint::validate that returns the results of the failed shapes
\* next to its own violation
RECURSIVE AndValidateFlat(_, _, _, _, _)
AndValidateFlat(g, c, shape, focus_node, value_nodes) ==
    IF value_nodes = <<>> THEN <<>>
    ELSE LET value_node == Head(value_nodes)
             branches == AndBranches(g, c.shapes, value_node)
         IN (IF branches.failed_shapes # <<>>
             THEN <<BuildValidationResult(shape, focus_node, Some(value_node),
                        "AndConstraintComponent",
                        "Value does not conform to all shapes in sh:and (failed: "
                            \o JoinNames(branches.failed_shapes) \o ")",
                        "sh:and with " \o ToString(Len(c.shapes)) \o " shapes")>>
                  \o branches.all_nested_results
             ELSE <<>>)
            \o AndValidateFlat(g, c, shape, focus_node, Tail(value_nodes))

\* AndConstraint::validate
RECURSIVE AndValidate(_, _, _, _, _)
AndValidate(g, c, shape, focus_node, value_nodes) ==
    IF value_nodes = <<>> THEN <<>>
    ELSE LET value_node == Head(value_nodes)
             branches == AndBranches(g, c.shapes, value_node)
         IN (IF branches.failed_shapes # <<>>
             THEN <<WithDetails(
                        BuildValidationResult(shape, focus_node, Some(value_node),
                            "AndConstraintComponent",
                            "Value does not conform to all shapes in sh:and (failed: "
                                \o JoinNames(branches.failed_shapes) \o ")",
                            "sh:and with " \o ToString(Len(c.shapes)) \o " shapes"),
                        branches.all_nested_results)>>
             ELSE <<>>)
            \o AndValidate(g, c, shape, focus_node, Tail(value_nodes))

\* the loop over the shapes of a XoneConstraint for one value node; the
\* nested results it collects are not put into the violation
RECURSIVE XoneBranches(_, _, _)
XoneBranches(g, nested_shapes, value_node) ==
    IF nested_shapes = <<>> THEN <<>>
    ELSE LET nested_report ==
                PushViolations(NewReport,
                               ValidateFocusNode(g, Head(nested_shapes), value_node))
         IN (IF nested_report.conforms THEN <<Head(nested_shapes).node>> ELSE <<>>)
            \o XoneBranches(g, Tail(nested_shapes), value_node)

\* XoneConstraint::validate
RECURSIVE XoneValidate(_, _, _, _, _)
XoneValidate(g, c, shape, focus_node, value_nodes) ==
    IF value_nodes = <<>> THEN <<>>
    ELSE LET value_node == Head(value_nodes)
             conforming_shapes == XoneBranches(g, c.shapes, value_node)
             conforming_count == Len(conforming_shapes)
         IN (IF conforming_count # 1
             THEN <<BuildValidationResult(shape, focus_node, Some(value_node),
                        "XoneConstraintComponent",
                        IF conforming_count = 0
                        THEN "Value does not conform to exactly one shape in sh:xone (conforms to none)"
                        ELSE "Value does not conform to exactly one shape in sh:xone (conforms to "
                                 \o ToString(conforming_count) \o " shapes: "
                                 \o JoinNames(conforming_shapes) \o ")",
                        "sh:xone with " \o ToString(Len(c.shapes)) \o " shapes, "
                            \o ToString(conforming_count) \o " conforming")>>
             ELSE <<>>)
            \o XoneValidate(g, c, shape, focus_node, Tail(value_nodes))

\* NotConstraint::validate
RECURSIVE NotValidate(_, _, _, _, _)
NotValidate(g, c, shape, focus_node, value_nodes) ==
    IF value_nodes = <<>> THEN <<>>
    ELSE LET value_node == Head(value_nodes)
             nested_report ==
                PushViolations(NewReport, ValidateFocusNode(g, c.shape, value_node))
         IN (IF nested_report.conforms
             THEN <<BuildValidationResult(shape, focus_node, Some(value_node),
                        "NotConstraintComponent",
                        "Value conforms to shape in sh:not (should not conform)",
                        "sh:not constraint referencing shape " \o c.shape.node)>>
             ELSE <<>>)
            \o NotValidate(g, c, shape, focus_node, Tail(value_nodes))

\* NodeConstraint::validate
RECURSIVE NodeValidate(_, _, _, _, _)
NodeValidate(g, c, shape, focus_node, value_nodes) ==
    IF value_nodes = <<>> THEN <<>>
    ELSE LET value_node == Head(value_nodes)
             nested_report == ValidateNodeReport(g, c.shape, value_node)
             here ==
                IF TermToNamedOrBlank(value_node) # None
                THEN IF ~nested_report.conforms
                     THEN <<WithDetails(
                                BuildValidationResult(shape, focus_node,
                                    Some(value_node), "NodeConstraintComponent",
                                    IF value_node = focus_node
                                    THEN "Focus node does not conform to sh:node constraint"
                                    ELSE "Value does not conform to sh:node constraint",
                                    "sh:node constraint referencing shape "
                                        \o c.shape.node),
                                nested_report.results)>>
                     ELSE <<>>
                ELSE <<BuildValidationResult(shape, focus_node, Some(value_node),
                           "NodeConstraintComponent",
                           "Value is not a node (is a literal)",
                           "sh:node constraint referencing shape " \o c.shape.node)>>
         IN here \o NodeValidate(g, c, shape, focus_node, Tail(value_nodes))

\* Shape::validate_constraint: the match on the constraint and the
\* `if let Ok(violations)` that follows it (every validator here returns Ok)
ValidateConstraint(g, shape, focus_node, value_nodes, c) ==
    CASE c.kind = "MinCount" -> MinCountValidate(c, shape, focus_node, value_nodes)
      [] c.kind = "MaxCount" -> MaxCountValidate(c, shape, focus_node, value_nodes)
      [] c.kind = "HasValue" -> HasValueValidate(c, shape, focus_node, value_nodes)
      [] c.kind = "Class" -> ClassValidate(g, c, shape, focus_node, value_nodes)
      [] c.kind = "QualifiedValueShape" ->
            QualifiedValueShapeValidate(g, c, shape, focus_node, value_nodes)
      [] c.kind = "Sparql" -> SparqlValidate(c, shape, focus_node, value_nodes)
      [] c.kind = "Equals" -> EqualsValidate(g, c, shape, focus_node, value_nodes)
      [] c.kind = "LessThan" -> LessThanValidate(g, c, shape, focus_node, value_nodes)
      [] c.kind = "LessThanOrEquals" ->
            LessThanOrEqualsValidate(g, c, shape, focus_node, value_nodes)
      [] c.kind = "Or" -> OrValidate(g, c, shape, focus_node, value_nodes)
      [] c.kind = "And" -> AndValidate(g, c, shape, focus_node, value_nodes)
      [] c.kind = "Xone" -> XoneValidate(g, c, shape, focus_node, value_nodes)
      [] c.kind = "Not" -> NotValidate(g, c, shape, focus_node, value_nodes)
      [] c.kind = "Node" -> NodeValidate(g, c, shape, focus_node, value_nodes)
      [] c.kind = "MinExclusive" ->
            RangeValidate(c, shape, focus_node, value_nodes, "gt",
                          "MinExclusiveConstraintComponent",
                          "Value is not greater than", "sh:minExclusive")
      [] c.kind = "MinInclusive" ->
            RangeValidate(c, shape, focus_node, value_nodes, "ge",
                          "MinInclusiveConstraintComponent",
                          "Value is less than minimum", "sh:minInclusive")
      [] c.kind = "MaxExclusive" ->
            RangeValidate(c, shape, focus_node, value_nodes, "lt",
                          "MaxExclusiveConstraintComponent",
                          "Value is not less than", "sh:maxExclusive")
      [] c.kind = "MaxInclusive" ->
            RangeValidate(c, shape, focus_node, value_nodes, "le",
                          "MaxInclusiveConstraintComponent",
                          "Value exceeds maximum", "sh:maxInclusive")

\* Shape::validate_constraints_on_values
RECURSIVE ValidateConstraintsOnValues(_, _, _, _, _)
ValidateConstraintsOnValues(g, shape, focus_node, value_nodes, constraints) ==
    IF constraints = <<>> THEN <<>>
    ELSE ValidateConstraint(g, shape, focus_node, value_nodes, Head(constraints))
         \o ValidateConstraintsOnValues(g, shape, focus_node, value_nodes,
                                        Tail(constraints))

IsDisjointQualified(c) ==
    c.kind = "QualifiedValueShape" /\ c.qualified_value_shapes_disjoint

\* the shapes of the QualifiedValueShape constraints of a property shape
QualifiedShapesOf(property_shape) ==
    LET qs == SelectSeq(property_shape.constraints,
                        LAMBDA c : c.kind = "QualifiedValueShape")
    IN [i \in 1..Len(qs) |-> qs[i].shape]

\* sibling_qualified_shapes.get(&ps_idx): Some(siblings) when the property
\* shape has a disjoint qualified value shape
RECURSIVE SiblingsFrom(_, _, _)
SiblingsFrom(property_shapes, ps_idx, other_idx) ==
    IF other_idx > Len(property_shapes) THEN <<>>
    ELSE (IF other_idx = ps_idx THEN <<>>
          ELSE QualifiedShapesOf(property_shapes[other_idx]))
         \o SiblingsFrom(property_shapes, ps_idx, other_idx + 1)

SiblingQualifiedShapes(property_shapes, ps_idx) ==
    IF \E i \in 1..Len(property_shapes[ps_idx].constraints) :
            IsDisjointQualified(property_shapes[ps_idx].constraints[i])
    THEN Some(SiblingsFrom(property_shapes, ps_idx, 1))
    ELSE None

\* the constraint loop of validate_property_shape_with_disjoint;
\* qualified_conforming_count is declared before the loop
DisjointConstraintLoop(g, property_shape, focus_node, value_nodes, siblings,
                       constraints, count) ==
    IF constraints = <<>> THEN <<>>
    ELSE LET c == Head(constraints)
             counted ==
                Cardinality({i \in 1..Len(value_nodes) :
                    /\ TermToNamedOrBlank(value_nodes[i]) # None
                    /\ ValidateNode(g, c.shape, value_nodes[i])
                    /\ ~\E k \in 1..Len(siblings) :
                            ValidateNode(g, siblings[k], value_nodes[i])})
         IN IF IsDisjointQualified(c)
            THEN QualifiedCountViolations(c, property_shape, focus_node,
                                          count + counted)
                 \o DisjointConstraintLoop(g, property_shape, focus_node, value_nodes,
                                           siblings, Tail(constraints), count + counted)
            ELSE ValidateConstraint(g, property_shape, focus_node, value_nodes, c)
                 \o DisjointConstraintLoop(g, property_shape, focus_node, value_nodes,
                                           siblings, Tail(constraints), count)

\* Shape::validate_property_shape_with_disjoint
ValidatePropertyShapeWithDisjoint(g, property_shape, focus_node, siblings) ==
    LET value_nodes == GetValueNodes(g, property_shape, focus_node)
    IN DisjointConstraintLoop(g, property_shape, focus_node, value_nodes, siblings,
                              property_shape.constraints, 0)
       \o ValidateNestedPropertyShapes(g, property_shape, value_nodes)
       \o ValidateClosedConstraint(g, property_shape, focus_node)

\* the inner loop of validate_nested_property_shapes, for one value node
RECURSIVE NestedForValue(_, _, _, _)
NestedForValue(g, shape, value_node, ps_idx) ==
    IF ps_idx > Len(shape.property_shapes) THEN <<>>
    ELSE LET siblings == SiblingQualifiedShapes(shape.property_shapes, ps_idx)
             property_shape == shape.property_shapes[ps_idx]
         IN (IF siblings # None
             THEN ValidatePropertyShapeWithDisjoint(g, property_shape, value_node,
                                                    siblings[1])
             ELSE ValidateFocusNode(g, property_shape, value_node))
            \o NestedForValue(g, shape, value_node, ps_idx + 1)

\* Shape::validate_nested_property_shapes
ValidateNestedPropertyShapes(g, shape, value_nodes) ==
    IF shape.property_shapes = <<>> \/ value_nodes = <<>> THEN <<>>
    ELSE NestedForValue(g, shape, Head(value_nodes), 1)
         \o ValidateNestedPropertyShapes(g, shape, Tail(value_nodes))

\* Shape::validate_focus_node
ValidateFocusNode(g, shape, focus_node) ==
    LET value_nodes == GetValueNodes(g, shape, focus_node)
    IN ValidateConstraintsOnValues(g, shape, focus_node, value_nodes, shape.constraints)
       \o ValidateNestedPropertyShapes(g, shape, value_nodes)
       \o ValidateClosedConstraint(g, shape, focus_node)

----------------------------------------------------------------------------
(* The path resolver, one closure-loop iteration per step *)

\* the triples a graph of SpecPath is drawn from
PathTriples ==
    {<<"a", "p", "b">>, <<"b", "p", "c">>, <<"c", "p", "a">>, <<"a", "p", "c">>,
     <<"b", "p", "a">>, <<"c", "p", "b">>, <<"a", "p", "a">>,
     <<"a", "q", "b">>, <<"c", "q", "a">>, <<"b", "p", "l">>}

PathGraphs == {g \in SUBSET PathTriples : Cardinality(g) <= MaxTriples}

\* the elements put under ZeroOrMore and OneOrMore
InnerElements ==
    {Iri("p"), Inverse("p"), Alternative(<<Iri("p"), Iri("q")>>),
     ZeroOrOne(Iri("p")), OneOrMore(Iri("p")), ZeroOrMore(Iri("q"))}

PathCatalog ==
    {<<ZeroOrMore(e)>> : e \in InnerElements}
    \cup {<<OneOrMore(e)>> : e \in InnerElements}
    \cup {<<Iri("p"), Inverse("p")>>, <<Iri("p"), ZeroOrMore(Iri("p"))>>,
          <<Inverse("p"), OneOrMore(Iri("p"))>>, <<ZeroOrOne(Iri("p"))>>,
          <<Alternative(<<Iri("p"), Iri("q")>>)>>}

PathInit ==
    /\ graph \in PathGraphs
    /\ path \in PathCatalog
    /\ start \in Nodes
    /\ current_nodes = <<start>>
    /\ elem_idx = 1
    /\ subj_list = <<>> /\ results = <<>> /\ visited = {} /\ to_visit = <<>>
    /\ expanded = <<>>
    /\ ppc = "element"
    /\ ReportIdle
    /\ ValidateIdle
    /\ UnitIdle

\* an element without a loop of its own at the top level
CanApplyElement ==
    ppc = "element" /\ elem_idx <= Len(path) /\ ~IsClosure(path[elem_idx])

ApplyElement ==
    /\ CanApplyElement
    /\ current_nodes' = ResolveElement(graph, path[elem_idx], current_nodes)
    /\ elem_idx' = elem_idx + 1
    /\ UNCHANGED <<graph, path, start, subj_list, results, visited, to_visit,
                   expanded, ppc, reportVars, validateVars,
                   unitVars>>

\* resolve_element entered for ZeroOrMore / OneOrMore
CanEnterClosure ==
    ppc = "element" /\ elem_idx <= Len(path) /\ IsClosure(path[elem_idx])

EnterClosure ==
    /\ CanEnterClosure
    /\ subj_list' = Subjects(current_nodes)
    /\ results' = <<>>
    /\ ppc' = "subjects"
    /\ UNCHANGED <<graph, path, start, current_nodes, elem_idx, visited, to_visit,
                   expanded, reportVars, validateVars,
                   unitVars>>

\* the next subject: visited and to_visit are created, the loop is entered
CanBeginSubject == ppc = "subjects" /\ subj_list # <<>>

BeginSubject ==
    /\ CanBeginSubject
    /\ LET st == ClosureStart(path[elem_idx], Head(subj_list), results)
       IN /\ visited' = st.visited
          /\ to_visit' = st.to_visit
          /\ results' = st.results
    /\ subj_list' = Tail(subj_list)
    /\ expanded' = <<>>
    /\ ppc' = "loop"
    /\ UNCHANGED <<graph, path, start, current_nodes, elem_idx, reportVars, validateVars,
                   unitVars>>

\* `while let Some(current) = to_visit.pop()`: one iteration
CanLoopStep == ppc = "loop" /\ to_visit # <<>>

LoopStep ==
    /\ CanLoopStep
    /\ LET st == LoopBody(graph, path[elem_idx].elem,
                          [visited |-> visited, to_visit |-> to_visit,
                           results |-> results])
       IN /\ visited' = st.visited
          /\ to_visit' = st.to_visit
          /\ results' = st.results
    /\ expanded' = Append(expanded, to_visit[Len(to_visit)])
    /\ UNCHANGED <<graph, path, start, current_nodes, elem_idx, subj_list, ppc,
                   reportVars, validateVars,
                   unitVars>>

\* to_visit.pop() returned None
CanExitLoop == ppc = "loop" /\ to_visit = <<>>

ExitLoop ==
    /\ CanExitLoop
    /\ ppc' = "subjects"
    /\ UNCHANGED <<graph, path, start, current_nodes, elem_idx, subj_list, results,
                   visited, to_visit, expanded, reportVars, validateVars,
                   unitVars>>

\* all subjects handled: duplicates removed, the element's result returned
CanLeaveClosure == ppc = "subjects" /\ subj_list = <<>>

LeaveClosure ==
    /\ CanLeaveClosure
    /\ current_nodes' = RemoveDuplicates(results)
    /\ elem_idx' = elem_idx + 1
    /\ ppc' = "element"
    /\ UNCHANGED <<graph, path, start, subj_list, results, visited, to_visit,
                   expanded, reportVars, validateVars,
                   unitVars>>

\* resolve_path_for_given_node returns current_nodes
CanPathReturn == ppc = "element" /\ elem_idx > Len(path)

PathReturn ==
    /\ CanPathReturn
    /\ ppc' = "done"
    /\ UNCHANGED <<graph, path, start, current_nodes, elem_idx, subj_list, results,
                   visited, to_visit, expanded, reportVars, validateVars,
                   unitVars>>

PathNext ==
    \/ ApplyElement
    \/ EnterClosure
    \/ BeginSubject
    \/ LoopStep
    \/ ExitLoop
    \/ LeaveClosure
    \/ PathReturn

\* every action assigns all primed variables, so a step is possible exactly
\* when one of the guards holds
PathStepEnabled ==
    \/ CanApplyElement \/ CanEnterClosure \/ CanBeginSubject \/ CanLoopStep
    \/ CanExitLoop \/ CanLeaveClosure \/ CanPathReturn

SpecPath == PathInit /\ [][PathNext]_vars

\* the resolver is a sequential computation: a step that can be taken is taken
SpecPathFair == SpecPath /\ WF_vars(PathNext)

----------------------------------------------------------------------------
(* The meaning of a path element as a set, independent of the resolver's    *)
(* loops: the terms one application of an element reaches from a term.      *)

RECURSIVE PathSem(_, _, _)
RECURSIVE StarSem(_, _, _)

\* the least set containing S and closed under one application of e
StarSem(g, e, S) ==
    LET T == S \cup UNION {PathSem(g, e, x) : x \in S}
    IN IF T = S THEN S ELSE StarSem(g, e, T)

PathSem(g, e, x) ==
    IF IsLiteral(x) THEN {}
    ELSE CASE e.kind = "Iri" -> {t[3] : t \in {u \in g : u[1] = x /\ u[2] = e.iri}}
           [] e.kind = "Inverse" -> {t[1] : t \in {u \in g : u[3] = x /\ u[2] = e.iri}}
           [] e.kind = "Alternative" ->
                UNION {PathSem(g, e.alts[i], x) : i \in 1..Len(e.alts)}
           [] e.kind = "ZeroOrOne" -> {x} \cup PathSem(g, e.elem, x)
           [] e.kind = "ZeroOrMore" -> StarSem(g, e.elem, {x})
           [] e.kind = "OneOrMore" -> StarSem(g, e.elem, PathSem(g, e.elem, x))

PathDone == ppc = "done"

\* the resolver's step-by-step result is the result of resolve_element as an operator
StepsAgreeWithOperator ==
    PathDone => current_nodes = ResolvePathForGivenNode(path, graph, start)

----------------------------------------------------------------------------
(* Claims about the path resolver *)

Occurrences(s, x) == Cardinality({i \in 1..Len(s) : s[i] = x})

ExpandedAtMostOnce == \A t \in SeqToSet(expanded) : Occurrences(expanded, t) <= 1

\* every term that can occur in a graph of the model
AllTerms == Nodes \cup Literals

\* steps one subject's closure loop can still take, from its visited set and stack
LoopMeasure == 2 * Cardinality(AllTerms \ visited) + Len(to_visit)

SubjectCost == 2 * Cardinality(AllTerms) + 2
ElementCost == Cardinality(AllTerms) * SubjectCost + 2

\* an upper bound on the steps the resolver can still take: it decreases with
\* every step, so no run of the resolver is infinite
Variant ==
    LET later(i) == (Len(path) + 1 - i) * ElementCost
    IN CASE ppc = "done" -> 0
         [] ppc = "element" -> 1 + later(elem_idx)
         [] ppc = "subjects" -> 2 + later(elem_idx + 1) + Len(subj_list) * SubjectCost
         [] ppc = "loop" -> 3 + later(elem_idx + 1) + Len(subj_list) * SubjectCost
                              + LoopMeasure
         [] OTHER -> 0

\* C7: path evaluation terminates on every path and graph, cyclic graphs
\* included (every step lowers a natural-number bound on the steps left, and the
\* resolver is never stuck before it returns), and no closure loop pops
\* (expands) a term more than once.
C7_PathTerminates ==
    /\ [][Variant' < Variant]_vars
    /\ [](Variant >= 0 /\ ExpandedAtMostOnce /\ (PathDone \/ PathStepEnabled))

\* C7 witness: a closure loop on a cycle through the start node has ended, having
\* expanded every node of the cycle.
C7_Witness ==
    /\ PathDone
    /\ path = <<ZeroOrMore(Iri("p"))>>
    /\ {<<"a", "p", "b">>, <<"b", "p", "c">>, <<"c", "p", "a">>} \subseteq graph
    /\ start = "a"
    /\ SeqToSet(expanded) = {"a", "b", "c"}

\* C8: resolve(ZeroOrMore(e), g, n) is exactly the set of terms reachable from n
\* by zero or more applications of e; in particular it contains n.
C8_ZeroOrMoreExact ==
    \A e \in InnerElements :
        (PathDone /\ path = <<ZeroOrMore(e)>>) =>
            /\ start \in SeqToSet(current_nodes)
            /\ SeqToSet(current_nodes) = StarSem(graph, e, {start})

\* C8 witness: the 3-cycle a p b, b p c, c p a resolved from a gives {a, b, c}.
C8_Witness ==
    /\ PathDone
    /\ path = <<ZeroOrMore(Iri("p"))>>
    /\ graph = {<<"a", "p", "b">>, <<"b", "p", "c">>, <<"c", "p", "a">>}
    /\ start = "a"
    /\ SeqToSet(current_nodes) = {"a", "b", "c"}

\* the terms reachable from x by one or more applications of e
ReachOneOrMore(g, e, x) == StarSem(g, e, PathSem(g, e, x))

\* C9: resolve(OneOrMore(e), g, focus) contains every term reachable by one or
\* more applications of e, and contains focus exactly when a chain of one or
\* more e-steps leads from focus back to focus.
C9_OneOrMoreCycle ==
    \A e \in InnerElements :
        (PathDone /\ path = <<OneOrMore(e)>>) =>
            /\ ReachOneOrMore(graph, e, start) \subseteq SeqToSet(current_nodes)
            /\ (start \in SeqToSet(current_nodes)
                    <=> start \in ReachOneOrMore(graph, e, start))

\* what the resolver computes for OneOrMore: the reachable terms without focus
OneOrMoreWithoutFocus ==
    \A e \in InnerElements :
        (PathDone /\ path = <<OneOrMore(e)>>) =>
            SeqToSet(current_nodes) = ReachOneOrMore(graph, e, start) \ {start}

----------------------------------------------------------------------------
(* validation/mod.rs: validate, as a state machine.  The cache is built by  *)
(* one insertion per step; the shape tasks and the focus-node tasks of      *)
(* rayon's par_iter run in any interleaving.                                *)

MaxDataTriples == 3

\* the triples a data graph of the model is drawn from
DataTriples ==
    {<<"a", "type", "C">>, <<"b", "type", "C">>, <<"b", "type", "D">>,
     <<"D", "subClassOf", "C">>, <<"a", "p", "b">>, <<"a", "p", "l">>,
     <<"b", "q", "a">>, <<"q", "subPropertyOf", "p">>}

DataGraphs == {g \in SUBSET DataTriples : Cardinality(g) <= MaxDataTriples}

P_min == Shape("P_min", Some(<<Iri("p")>>), {}, FALSE, <<MinCount(1)>>, None, <<>>)
P_class ==
    Shape("P_class", Some(<<Iri("p")>>), {}, FALSE, <<Class("C"), MaxCount(1)>>,
          None, <<>>)
P_q ==
    Shape("P_q", Some(<<Alternative(<<Iri("q"), Iri("type")>>)>>), {}, FALSE, <<>>,
          None, <<>>)
N_classC == Shape("N_classC", None, {}, FALSE, <<Class("C")>>, None, <<>>)
N_classD == Shape("N_classD", None, {}, FALSE, <<Class("D")>>, None, <<>>)
P_qvs1 ==
    Shape("P_qvs1", Some(<<Iri("p")>>), {}, FALSE,
          <<QualifiedValueShape(N_classC, Some(1), None, TRUE)>>, None, <<>>)
P_qvs2 ==
    Shape("P_qvs2", Some(<<Iri("p")>>), {}, FALSE,
          <<QualifiedValueShape(N_classD, None, Some(0), FALSE)>>, None, <<>>)

S_person == Shape("S_person", None, {TargetClass("C")}, FALSE, <<>>, None, <<P_min>>)
S_overlap ==
    Shape("S_overlap", None, {TargetNode("a"), TargetClass("C")}, FALSE,
          <<Class("C")>>, None, <<P_class>>)
S_off ==
    Shape("S_off", None, {TargetNode("a"), TargetClass("C")}, TRUE,
          <<HasValue("b"), Sparql("q_parse_error", "Select", None)>>,
          Some([ignored_properties |-> {}]), <<P_min>>)
S_on ==
    Shape("S_on", None, {TargetNode("a"), TargetClass("C")}, FALSE,
          <<HasValue("b"), Sparql("q_parse_error", "Select", None)>>,
          Some([ignored_properties |-> {}]), <<P_min>>)
S_sparql ==
    Shape("S_sparql", None, {TargetNode("a"), TargetNode("b")}, FALSE,
          <<Sparql("q_parse_error", "Select", None),
            Sparql("q_exec_error", "Ask", None),
            Sparql("q_eval_error", "Select", None), HasValue("c")>>, None, <<>>)
S_sparql_path ==
    Shape("S_sparql_path", Some(<<Iri("p")>>), {TargetSubjectsOf("p")}, FALSE,
          <<Sparql("q_select", "Select", None),
            Sparql("q_ask", "Ask", Some("CustomComponent")),
            Sparql("q_union", "Select", None), Sparql("q_minus", "Select", None)>>,
          None, <<>>)
S_closed ==
    Shape("S_closed", None,
          {TargetSubjectsOf("p"), TargetObjectsOf("p"), TargetAdvanced("x")}, FALSE,
          <<>>, Some([ignored_properties |-> {"type"}]), <<P_q>>)
S_key ==
    Shape("S_key", None, {TargetNode("C"), TargetClass("C")}, FALSE, <<MinCount(2)>>,
          None, <<>>)
S_qvs ==
    Shape("S_qvs", None, {TargetNode("a")}, FALSE,
          <<QualifiedValueShape(N_classC, Some(1), None, FALSE)>>, None,
          <<P_qvs1, P_qvs2>>)

\* the shape lists validate is called with
ShapeLists ==
    {<<>>, <<S_person>>, <<S_off>>, <<S_off, S_person>>, <<S_overlap, S_off>>,
     <<S_on>>, <<S_person, S_overlap>>, <<S_sparql>>, <<S_sparql_path, S_sparql>>,
     <<S_closed, S_key>>, <<S_key>>, <<S_qvs, S_person>>}

\* the orders `focus_nodes.into_iter().collect()` can give a HashSet
Orders(S) ==
    {v \in [1..Cardinality(S) -> S] : \A i, j \in DOMAIN v : v[i] = v[j] => i = j}

\* focus nodes kept in a Vec that every target extends: a node selected by two
\* targets is listed again
FocusNodesVecPerTarget(shape, cache, g) ==
    LET all == FocusNodes(shape, cache, g)
        again == {n \in all : \E t1, t2 \in shape.targets :
                     /\ t1 # t2
                     /\ n \in ResolveTargetForGivenGraph(t1, g)
                     /\ n \in ResolveTargetForGivenGraph(t2, g)}
    IN {v \o w : v \in Orders(all), w \in Orders(again)}

\* `let focus_nodes_vec: Vec<_> = focus_nodes.into_iter().collect()`: the
\* HashSet the targets were extended into, in one of its orders
FocusNodesVec(shape, cache, g) == Orders(FocusNodes(shape, cache, g))

\* `for node_report in focus_reports { report.merge(node_report) }`
RECURSIVE MergeAll(_, _)
MergeAll(acc, rs) ==
    IF rs = <<>> THEN acc ELSE MergeAll(MergeOp(acc, Head(rs)), Tail(rs))

ValidateInit ==
    /\ ReportIdle
    /\ PathIdle
    /\ UnitIdle
    /\ data_graph \in DataGraphs
    /\ shapes \in ShapeLists
    /\ target_cache = EmptyCache
    /\ cache_pos = 1
    /\ cache_seen = {}
    /\ vpc = "build_cache"
    /\ shape_pc = [i \in 1..Len(shapes) |-> "pending"]
    /\ focus_nodes_vec = [i \in 1..Len(shapes) |-> <<>>]
    /\ focus_reports = [i \in 1..Len(shapes) |-> <<>>]
    /\ shape_reports = [i \in 1..Len(shapes) |-> None]
    /\ report = NewReport
    /\ merge_idx = 1

\* build_target_cache: one `cache.entry(target).or_insert_with(..)`
BuildCacheStep ==
    /\ vpc = "build_cache"
    /\ cache_pos <= Len(shapes)
    /\ \E target \in shapes[cache_pos].targets \ cache_seen :
          /\ target_cache' = CacheInsert(target_cache, target, data_graph)
          /\ cache_seen' = cache_seen \cup {target}
    /\ UNCHANGED <<data_graph, shapes, cache_pos, vpc, shape_pc, focus_nodes_vec,
                   focus_reports, shape_reports, report, merge_idx, reportVars,
                   pathVars, unitVars>>

\* build_target_cache: the inner loop is over, `for shape in shapes` goes on
BuildCacheNextShape ==
    /\ vpc = "build_cache"
    /\ cache_pos <= Len(shapes)
    /\ cache_seen = shapes[cache_pos].targets
    /\ cache_pos' = cache_pos + 1
    /\ cache_seen' = {}
    /\ UNCHANGED <<data_graph, shapes, target_cache, vpc, shape_pc, focus_nodes_vec,
                   focus_reports, shape_reports, report, merge_idx, reportVars,
                   pathVars, unitVars>>

CacheLoopDoneEarly == TRUE

\* `for shape in shapes` of build_target_cache has run through
CacheLoopDone == cache_pos > Len(shapes)

\* build_target_cache returns; validate goes on to shapes.par_iter()
BuildCacheReturn ==
    /\ vpc = "build_cache"
    /\ CacheLoopDone
    /\ vpc' = "parallel"
    /\ UNCHANGED <<data_graph, shapes, target_cache, cache_pos, cache_seen, shape_pc,
                   focus_nodes_vec, focus_reports, shape_reports, report, merge_idx,
                   reportVars, pathVars, unitVars>>

NeverDeactivated(shape) == FALSE

\* `if self.deactivated { return report; }`
IsDeactivated(shape) == shape.deactivated

\* validate_with_target_cache up to focus_nodes_vec, for the task of shape i
StartShapeTask(i) ==
    /\ vpc = "parallel"
    /\ shape_pc[i] = "pending"
    /\ IF IsDeactivated(shapes[i])
       THEN /\ shape_reports' = [shape_reports EXCEPT ![i] = Some(NewReport)]
            /\ shape_pc' = [shape_pc EXCEPT ![i] = "done"]
            /\ UNCHANGED <<focus_nodes_vec, focus_reports>>
       ELSE /\ \E vec \in FocusNodesVec(shapes[i], target_cache, data_graph) :
                  /\ focus_nodes_vec' = [focus_nodes_vec EXCEPT ![i] = vec]
                  /\ focus_reports' =
                        [focus_reports EXCEPT ![i] = [k \in 1..Len(vec) |-> None]]
            /\ shape_pc' = [shape_pc EXCEPT ![i] = "running"]
            /\ UNCHANGED shape_reports
    /\ UNCHANGED <<data_graph, shapes, target_cache, cache_pos, cache_seen, vpc,
                   report, merge_idx, reportVars, pathVars, unitVars>>

\* the closure of focus_nodes_vec.par_iter().map(..) for the k-th focus node
FocusNodeTask(i, k) ==
    /\ vpc = "parallel"
    /\ shape_pc[i] = "running"
    /\ focus_reports[i][k] = None
    /\ focus_reports' =
          [focus_reports EXCEPT ![i][k] =
              Some(PushViolations(NewReport,
                       ValidateFocusNode(data_graph, shapes[i], focus_nodes_vec[i][k])))]
    /\ UNCHANGED <<data_graph, shapes, target_cache, cache_pos, cache_seen, vpc,
                   shape_pc, focus_nodes_vec, shape_reports, report, merge_idx,
                   reportVars, pathVars, unitVars>>

\* collect() is complete: the shape task merges its node reports and returns
FinishShapeTask(i) ==
    /\ vpc = "parallel"
    /\ shape_pc[i] = "running"
    /\ \A k \in DOMAIN focus_reports[i] : focus_reports[i][k] # None
    /\ shape_reports' =
          [shape_reports EXCEPT ![i] =
              Some(MergeAll([conforms |-> TRUE, results |-> <<>>],
                            [k \in DOMAIN focus_reports[i] |-> focus_reports[i][k][1]]))]
    /\ shape_pc' = [shape_pc EXCEPT ![i] = "done"]
    /\ UNCHANGED <<data_graph, shapes, target_cache, cache_pos, cache_seen, vpc,
                   focus_nodes_vec, focus_reports, report, merge_idx, reportVars,
                   pathVars, unitVars>>

\* shapes.par_iter().map(..).collect() returns shape_reports
CollectShapeReports ==
    /\ vpc = "parallel"
    /\ \A i \in DOMAIN shapes : shape_pc[i] = "done"
    /\ vpc' = "merge"
    /\ UNCHANGED <<data_graph, shapes, target_cache, cache_pos, cache_seen, shape_pc,
                   focus_nodes_vec, focus_reports, shape_reports, report, merge_idx,
                   reportVars, pathVars, unitVars>>

\* `for shape_report in shape_reports { report.merge(shape_report); }`
MergeShapeReport ==
    /\ vpc = "merge"
    /\ merge_idx <= Len(shapes)
    /\ report' = MergeOp(report, shape_reports[merge_idx][1])
    /\ merge_idx' = merge_idx + 1
    /\ UNCHANGED <<data_graph, shapes, target_cache, cache_pos, cache_seen, vpc,
                   shape_pc, focus_nodes_vec, focus_reports, shape_reports,
                   reportVars, pathVars, unitVars>>

\* validate returns report
ValidateReturn ==
    /\ vpc = "merge"
    /\ merge_idx > Len(shapes)
    /\ vpc' = "done"
    /\ UNCHANGED <<data_graph, shapes, target_cache, cache_pos, cache_seen, shape_pc,
                   focus_nodes_vec, focus_reports, shape_reports, report, merge_idx,
                   reportVars, pathVars, unitVars>>

ValidateNext ==
    \/ BuildCacheStep
    \/ BuildCacheNextShape
    \/ BuildCacheReturn
    \/ \E i \in DOMAIN shapes : StartShapeTask(i)
    \/ \E i \in DOMAIN shapes : \E k \in DOMAIN focus_reports[i] : FocusNodeTask(i, k)
    \/ \E i \in DOMAIN shapes : FinishShapeTask(i)
    \/ CollectShapeReports
    \/ MergeShapeReport
    \/ ValidateReturn

SpecValidate == ValidateInit /\ [][ValidateNext]_vars

ValidateDone == vpc = "done"

----------------------------------------------------------------------------
(* Claims about validate *)

\* a set of terms as a sequence, in the order of TermOrder
RECURSIVE SortByRank(_)
SortByRank(S) ==
    IF S = {} THEN <<>>
    ELSE LET m == CHOOSE x \in S : \A y \in S : Rank(x) <= Rank(y)
         IN <<m>> \o SortByRank(S \ {m})

RECURSIVE FocusResultsInOrder(_, _, _)
FocusResultsInOrder(g, shape, focus_seq) ==
    IF focus_seq = <<>> THEN <<>>
    ELSE ValidateFocusNode(g, shape, Head(focus_seq))
         \o FocusResultsInOrder(g, shape, Tail(focus_seq))

\* the results of one shape when its focus nodes are handled one after the
\* other (the `.iter()` build of validate_with_target_cache), without a cache
SequentialShapeResults(g, shape) ==
    IF shape.deactivated THEN <<>>
    ELSE FocusResultsInOrder(g, shape, SortByRank(FocusNodes(shape, EmptyCache, g)))

\* the results of validate when shapes are handled one after the other
RECURSIVE SequentialResults(_, _)
SequentialResults(g, shape_list) ==
    IF shape_list = <<>> THEN <<>>
    ELSE SequentialShapeResults(g, Head(shape_list))
         \o SequentialResults(g, Tail(shape_list))

\* the same results, whatever their order
SameCollection(s1, s2) ==
    /\ Len(s1) = Len(s2)
    /\ \A x \in SeqToSet(s1) : Occurrences(s1, x) = Occurrences(s2, x)

\* C2: whatever the interleaving of the shape tasks and focus-node tasks and
\* whatever order the focus-node sets are iterated in, the report validate
\* returns has the conforms flag and the collection of results that the
\* inputs alone determine (those of the sequential run); only the order of
\* the results may differ between two runs.
C2_Deterministic ==
    ValidateDone =>
        /\ SameCollection(report.results, SequentialResults(data_graph, shapes))
        /\ report.conforms = (SequentialResults(data_graph, shapes) = <<>>)

\* a finished run with two shape tasks that each had two focus-node tasks and
\* whose results did not come out in the order of the sequential run
C2_Witness ==
    /\ ValidateDone
    /\ Len(shapes) = 2
    /\ \A i \in DOMAIN shapes : Len(focus_nodes_vec[i]) = 2
    /\ Len(report.results) >= 3
    /\ report.results # SequentialResults(data_graph, shapes)

\* C3: the report a shape task returns for a deactivated top-level shape is
\* conforming and has no results, whatever the data graph and the shape's
\* targets, constraints, property shapes and closed setting; when every shape
\* is deactivated the final report is conforming and empty.
C3_DeactivatedEmpty ==
    /\ \A i \in DOMAIN shapes :
          (shapes[i].deactivated /\ shape_reports[i] # None) =>
              (shape_reports[i][1].conforms /\ shape_reports[i][1].results = <<>>)
    /\ (ValidateDone /\ \A i \in DOMAIN shapes : shapes[i].deactivated) =>
          (report.conforms /\ report.results = <<>>)

\* a deactivated shape with targets that resolve to focus nodes, constraints
\* that would be violated, a property shape and sh:closed, whose task returned
C3_Witness ==
    /\ ValidateDone
    /\ shapes = <<S_off>>
    /\ FocusNodes(S_off, target_cache, data_graph) = {"a", "b"}
    /\ PushViolations(NewReport, ValidateFocusNode(data_graph, S_on, "a")).conforms = FALSE
    /\ shape_reports[1] # None

\* C4: validate called with no shapes returns a conforming report without
\* results, for every data graph.
C4_EmptyShapesConform ==
    (ValidateDone /\ shapes = <<>>) => (report.conforms /\ report.results = <<>>)

C4_Witness == ValidateDone /\ shapes = <<>> /\ Cardinality(data_graph) = MaxDataTriples

\* the messages of the violations that report a SPARQL error
DiagnosticMessages == {"SPARQL parse error", "SPARQL execution error"}

\* the pre-bound query of c fails before any solution is read: it does not
\* parse, or execute() returns an error
SparqlFailsOutright(c, focus_node, maybe_value) ==
    LET run == PrimaryRun(c.query, focus_node, maybe_value)
    IN run.parse = "err" \/ run.result = "err"

\* the pre-bound query of c fails: as above, or the evaluation of the query
\* reports an error while its solutions are read
SparqlFails(c, focus_node, maybe_value) ==
    LET run == PrimaryRun(c.query, focus_node, maybe_value)
    IN \/ SparqlFailsOutright(c, focus_node, maybe_value)
       \/ run.result = "solutions" /\ "err" \in SeqToSet(run.solutions)

\* the final report has a diagnostic violation of shape for constraint c at
\* focus_node
HasDiagnostic(shape, c, focus_node) ==
    \E r \in SeqToSet(report.results) :
        /\ r.focus_node = focus_node
        /\ r.source_shape = shape.node
        /\ r.constraint_detail = "SPARQL query: " \o c.query
        /\ r.message \in DiagnosticMessages

\* every constraint of every focus node of every active shape was evaluated
\* and what it found is in the final report
AllConstraintsEvaluated ==
    \A i \in DOMAIN shapes :
        ~shapes[i].deactivated =>
            \A f \in FocusNodes(shapes[i], EmptyCache, data_graph) :
                \A n \in DOMAIN shapes[i].constraints :
                    SeqToSet(ValidateConstraint(data_graph, shapes[i], f,
                                 GetValueNodes(data_graph, shapes[i], f),
                                 shapes[i].constraints[n]))
                        \subseteq SeqToSet(report.results)

\* a diagnostic is in the report wherever the query of a SPARQL constraint
\* failed (outright only, or in any of the ways of SparqlFails)
ErrorsSurfaced(outright_only) ==
    \A i \in DOMAIN shapes :
        ~shapes[i].deactivated =>
            \A f \in FocusNodes(shapes[i], EmptyCache, data_graph) :
                \A n \in DOMAIN shapes[i].constraints :
                    LET c == shapes[i].constraints[n]
                        targets == RunOnceTargets(c, shapes[i], f,
                                       GetValueNodes(data_graph, shapes[i], f))
                    IN (/\ c.kind = "Sparql"
                        /\ ~UnsupportedPrebinding(c.query)
                        /\ \E k \in DOMAIN targets :
                              IF outright_only
                              THEN SparqlFailsOutright(c, f, targets[k])
                              ELSE SparqlFails(c, f, targets[k]))
                           => HasDiagnostic(shapes[i], c, f)

\* C5: validate always returns a report; when the pre-bound query of a SPARQL
\* constraint does not parse or its execution fails, the report has a
\* violation with a diagnostic message for that focus node, and the other
\* constraints, focus nodes and shapes are evaluated all the same.
C5_SparqlErrorsSurfaced ==
    ValidateDone => (ErrorsSurfaced(FALSE) /\ AllConstraintsEvaluated)

\* what the validator does: a parse error and an error returned by execute()
\* are reported, and every constraint is evaluated; an error met while the
\* solutions are read is skipped without a result
SparqlOutrightErrorsSurfaced ==
    ValidateDone => (ErrorsSurfaced(TRUE) /\ AllConstraintsEvaluated)

SparqlSolutionErrorSkipped ==
    (ValidateDone /\ shapes = <<S_sparql>>) =>
        \A r \in SeqToSet(report.results) :
            r.constraint_detail # "SPARQL query: q_eval_error"
            /\ r.constraint_detail # "SPARQL SELECT: q_eval_error"

\* every target of every shape has an entry in the cache
CacheComplete ==
    \A i \in DOMAIN shapes : \A t \in shapes[i].targets :
        CacheKey(t) \in DOMAIN target_cache

\* the task of shape i wrote something: its focus_nodes_vec, a node report or
\* the report it returns
TaskWrote(i) ==
    \/ focus_nodes_vec'[i] # focus_nodes_vec[i]
    \/ focus_reports'[i] # focus_reports[i]
    \/ shape_reports'[i] # shape_reports[i]

\* C6: the cache has an entry for every target of every shape before any
\* shape task starts and is not written once build_target_cache has
\* returned; a step of a task writes only that task's private reports, a
\* focus-node task only its own node report, once; and validate's report is
\* written only by the merge loop, after every task has finished, by merging
\* the next private shape report.
C6_CacheThenPrivateThenMerge ==
    /\ []((vpc # "build_cache" \/ \E i \in DOMAIN shapes : shape_pc[i] # "pending")
            => (CacheComplete /\ vpc # "build_cache"))
    /\ [][vpc # "build_cache" => target_cache' = target_cache]_vars
    /\ [][\A i \in DOMAIN shapes :
            TaskWrote(i) =>
                /\ vpc = "parallel"
                /\ report' = report
                /\ \A j \in DOMAIN shapes \ {i} : ~TaskWrote(j)]_vars
    /\ [][\A i \in DOMAIN shapes :
            (shape_pc[i] = "running" /\ shape_pc'[i] = "running") =>
                /\ Cardinality({k \in DOMAIN focus_reports[i] :
                        focus_reports'[i][k] # focus_reports[i][k]}) <= 1
                /\ \A k \in DOMAIN focus_reports[i] :
                        focus_reports'[i][k] # focus_reports[i][k] =>
                            focus_reports[i][k] = None]_vars
    /\ [][report' # report =>
            /\ vpc = "merge"
            /\ \A i \in DOMAIN shapes : shape_pc[i] = "done"
            /\ report' = MergeOp(report, shape_reports[merge_idx][1])]_vars

\* two shape tasks are under way, one has returned its report and the other
\* has one node report written and one focus-node task still to run
C6_Witness ==
    /\ vpc = "parallel"
    /\ Cardinality(DOMAIN target_cache) >= 2
    /\ \E i, j \in DOMAIN shapes :
          /\ shape_pc[i] = "done" /\ shape_reports[i][1].results # <<>>
          /\ shape_pc[j] = "running"
          /\ \E k, m \in DOMAIN focus_reports[j] :
                /\ focus_reports[j][k] # None /\ focus_reports[j][k][1].results # <<>>
                /\ focus_reports[j][m] = None

\* C10: an entry of the cache for a target of a shape is the set
\* resolve_target_for_given_graph gives for that target on the data graph, and
\* once build_target_cache has returned every target has its entry; so the
\* focus nodes a shape task gets with the built cache are those it gets with
\* an empty cache.
C10_CacheMatchesResolve ==
    /\ \A i \in DOMAIN shapes : \A t \in shapes[i].targets :
          CacheKey(t) \in DOMAIN target_cache =>
              target_cache[CacheKey(t)] = ResolveTargetForGivenGraph(t, data_graph)
    /\ vpc # "build_cache" =>
          /\ CacheComplete
          /\ \A i \in DOMAIN shapes :
                FocusNodes(shapes[i], target_cache, data_graph)
                    = FocusNodes(shapes[i], EmptyCache, data_graph)
    /\ \A i \in DOMAIN shapes :
          shape_pc[i] = "running" =>
              SeqToSet(focus_nodes_vec[i])
                  = FocusNodes(shapes[i], EmptyCache, data_graph)

\* the cache holds the five targets of two shapes, among them a node target
\* and a class target on the same term, and the task of the second shape got
\* its focus nodes from it
C10_Witness ==
    /\ vpc = "parallel"
    /\ shapes = <<S_closed, S_key>>
    /\ Cardinality(DOMAIN target_cache) = 5
    /\ shape_pc[2] = "running"
    /\ SeqToSet(focus_nodes_vec[2]) = {"C", "a", "b"}

----------------------------------------------------------------------------
(* core/target.rs: resolve_target_for_given_graph, with the loop of        *)
(* collect_all_subclasses taken one pop per step                            *)

MaxTargetTriples == 3

TargetTriples ==
    {<<"a", "type", "C">>, <<"b", "type", "D">>, <<"c", "type", "_:k">>,
     <<"a", "type", "D">>, <<"D", "subClassOf", "C">>, <<"C", "subClassOf", "D">>,
     <<"_:k", "subClassOf", "C">>, <<"D", "subClassOf", "_:k">>}

TargetGraphs == {g \in SUBSET TargetTriples : Cardinality(g) <= MaxTargetTriples}

TargetCatalog ==
    {TargetClass("C"), TargetClass("D"), TargetClass("_:k"), TargetNode("a"),
     TargetSubjectsOf("type"), TargetObjectsOf("subClassOf"), TargetAdvanced("x")}

TargetInit ==
    /\ ReportIdle /\ PathIdle /\ ValidateIdle /\ FocusIdle /\ ParseIdle /\ RestIdle
    /\ tgt_graph \in TargetGraphs
    /\ tgt_target \in TargetCatalog
    /\ sub_visited = {}
    /\ sub_to_visit = <<>>
    /\ tgt_set = {}
    /\ tpc = "start"

\* Target::Class: collect_all_subclasses is entered, `to_visit = vec![node]`
EnterCollectSubclasses ==
    /\ tpc = "start"
    /\ tgt_target.kind = "Class"
    /\ sub_visited' = {}
    /\ sub_to_visit' = <<tgt_target.term>>
    /\ tpc' = "collect"
    /\ UNCHANGED <<tgt_graph, tgt_target, tgt_set, outsideTarget>>

\* one iteration of `while let Some(current) = to_visit.pop()`
CollectPop ==
    /\ tpc = "collect"
    /\ sub_to_visit # <<>>
    /\ LET n == Len(sub_to_visit)
           current == sub_to_visit[n]
           rest == SubSeq(sub_to_visit, 1, n - 1)
       IN IF current \notin sub_visited
          THEN /\ sub_visited' = sub_visited \cup {current}
               /\ sub_to_visit' =
                     rest \o SubjectsForPredicateObject(tgt_graph, SubClassOf, current)
          ELSE /\ sub_to_visit' = rest
               /\ UNCHANGED sub_visited
    /\ UNCHANGED <<tgt_graph, tgt_target, tgt_set, tpc, outsideTarget>>

\* the loop is over: the named nodes of visited are returned and the
\* instances of each of them are collected (target.rs lines 65-73)
CollectReturn ==
    /\ tpc = "collect"
    /\ sub_to_visit = <<>>
    /\ LET all_subclasses == {c \in sub_visited : ~IsBlank(c)}
       IN tgt_set' = UNION {SeqToSet(SubjectsForPredicateObject(tgt_graph, RdfType, c)) :
                              c \in all_subclasses}
    /\ tpc' = "done"
    /\ UNCHANGED <<tgt_graph, tgt_target, sub_visited, sub_to_visit, outsideTarget>>

\* the other arms of the match
ResolveOtherTarget ==
    /\ tpc = "start"
    /\ tgt_target.kind # "Class"
    /\ tgt_set' = ResolveTargetForGivenGraph(tgt_target, tgt_graph)
    /\ tpc' = "done"
    /\ UNCHANGED <<tgt_graph, tgt_target, sub_visited, sub_to_visit, outsideTarget>>

TargetNext ==
    \/ EnterCollectSubclasses
    \/ CollectPop
    \/ CollectReturn
    \/ ResolveOtherTarget

SpecTarget == TargetInit /\ [][TargetNext]_vars

TargetDone == tpc = "done"

\* the steps give what the operator gives
TargetStepsAgreeWithOperator ==
    TargetDone => tgt_set = ResolveTargetForGivenGraph(tgt_target, tgt_graph)

\* the classes at or below c: the least set that holds c and every subject
\* of an rdfs:subClassOf triple whose object it holds
RECURSIVE SubClassClosure(_, _)
SubClassClosure(g, S) ==
    LET more == S \cup {t[1] : t \in {u \in g : u[2] = SubClassOf /\ u[3] \in S}}
    IN IF more = S THEN S ELSE SubClassClosure(g, more)

\* the nodes with rdf:type c' for a class c' at or below c
InstancesBelow(g, c) ==
    {t[1] : t \in {u \in g : u[2] = RdfType /\ u[3] \in SubClassClosure(g, {c})}}

\* C11: Target::Class(c) resolves to exactly the nodes that have rdf:type c'
\* for a class c' in the reflexive transitive closure of rdfs:subClassOf
\* below c, cycles included, and to the empty set when there is none.
C11_ClassTargetClosure ==
    (TargetDone /\ tgt_target.kind = "Class") =>
        tgt_set = InstancesBelow(tgt_graph, tgt_target.term)

\* what the resolver returns: the instances of the named classes at or below c
\* (blank-node classes are walked through but their instances are left out)
ClassTargetNamedClassesOnly ==
    (TargetDone /\ tgt_target.kind = "Class") =>
        tgt_set = {t[1] : t \in {u \in tgt_graph :
                        /\ u[2] = RdfType
                        /\ u[3] \in SubClassClosure(tgt_graph, {tgt_target.term})
                        /\ ~IsBlank(u[3])}}

----------------------------------------------------------------------------
(* Shape::validate_focus_node on one shape, one data graph and one focus   *)
(* node, one phase or one constraint per step                               *)

MaxFocusTriples == 3

\* a shape without targets, as the constraints and nested shapes hold them
NodeShape(name, constraints) == Shape(name, None, {}, FALSE, constraints, None, <<>>)
PropertyShape(name, p, constraints) ==
    Shape(name, Some(<<Iri(p)>>), {}, FALSE, constraints, None, <<>>)

\* a case: a shape, the triples its data graphs are drawn from and the focus
\* nodes it is validated on
FocusCase(shape, triples, focus) == [shape |-> shape, triples |-> triples, focus |-> focus]

ClassCases ==
    LET triples == {<<"a", "p", "b">>, <<"a", "p", "c">>, <<"a", "p", "l">>,
                    <<"b", "type", "C">>, <<"b", "type", "D">>, <<"c", "type", "D">>,
                    <<"a", "type", "D">>, <<"D", "subClassOf", "C">>}
    IN {FocusCase(PropertyShape("PClass", "p", <<Class("C")>>), triples, {"a"}),
        FocusCase(NodeShape("NClass", <<Class("C")>>), triples, {"a", "l"})}

EqualsCases ==
    LET triples == {<<"a", "p", "a">>, <<"a", "p", "b">>, <<"a", "p", "l">>,
                    <<"a", "q", "a">>, <<"a", "q", "b">>, <<"a", "q", "l">>}
    IN {FocusCase(PropertyShape("PEquals", "p", <<Equals(<<Iri("q")>>)>>), triples,
                  {"a", "l"}),
        FocusCase(NodeShape("NEquals", <<Equals(<<Iri("q")>>)>>), triples, {"a", "l"})}

LessThanCases ==
    LET triples == {<<"a", "p", "1">>, <<"a", "p", "10">>, <<"a", "p", "l">>,
                    <<"a", "p", "b">>, <<"a", "q", "2">>, <<"a", "q", "10">>,
                    <<"a", "q", "abc">>, <<"a", "q", "b">>}
    IN {FocusCase(PropertyShape("PLessThan", "p", <<LessThan(<<Iri("q")>>)>>),
                  triples, {"a"}),
        FocusCase(PropertyShape("PLessThanOrEquals", "p",
                                <<LessThanOrEquals(<<Iri("q")>>)>>), triples, {"a"})}

\* a node shape a value node conforms to exactly when it is one of `terms`
OneOf(name, terms) ==
    NodeShape(name, <<Or([i \in 1..Len(terms) |->
                             NodeShape(name \o ToString(i), <<HasValue(terms[i])>>)])>>)

QualifiedA == OneOf("A", <<"b", "c", "l">>)
QualifiedB == OneOf("B", <<"c", "1">>)

\* a parent with two property shapes on p whose qualified value shapes A and B
\* are declared disjoint
QualifiedParent(name, min_a, max_a, min_b, max_b) ==
    Shape(name, None, {}, FALSE, <<>>, None,
          <<PropertyShape("PA", "p",
                <<QualifiedValueShape(QualifiedA, min_a, max_a, TRUE)>>),
            PropertyShape("PB", "p",
                <<QualifiedValueShape(QualifiedB, min_b, max_b, TRUE)>>)>>)

QualifiedCases ==
    LET triples == {<<"a", "p", "b">>, <<"a", "p", "c">>, <<"a", "p", "l">>,
                    <<"a", "p", "1">>}
    IN {FocusCase(QualifiedParent("Parent1", Some(2), None, Some(1), None),
                  triples, {"a"}),
        FocusCase(QualifiedParent("Parent2", None, Some(1), Some(1), Some(1)),
                  triples, {"a"}),
        FocusCase(QualifiedParent("Parent3", Some(1), Some(1), None, Some(0)),
                  triples, {"a"})}

OrCases ==
    LET triples == {<<"a", "p", "b">>, <<"a", "p", "c">>, <<"a", "p", "l">>,
                    <<"b", "type", "C">>, <<"c", "type", "C">>, <<"a", "type", "C">>}
        is_b == NodeShape("IsB", <<HasValue("b")>>)
        typed_c == NodeShape("TypedC", <<Class("C"), HasValue("c")>>)
        or_constraint == Or(<<is_b, typed_c>>)
    IN {FocusCase(PropertyShape("POr", "p", <<or_constraint>>), triples, {"a"}),
        FocusCase(NodeShape("NOr", <<or_constraint>>), triples, {"a", "b", "l"})}

RangeKinds == {"MinExclusive", "MinInclusive", "MaxExclusive", "MaxInclusive"}

RangeCases ==
    LET triples == {<<"a", "p", "1">>, <<"a", "p", "2">>, <<"a", "p", "10">>,
                    <<"a", "p", "l">>, <<"a", "p", "abc">>, <<"a", "p", "NaN">>,
                    <<"a", "p", "b">>}
    IN {FocusCase(PropertyShape("PRange", "p", <<[kind |-> k, term |-> bound]>>),
                  triples, {"a"}) : k \in RangeKinds, bound \in {"2", "abc"}}

\* shapes used as operands and as nested property shapes; the Off ones are
\* the same shapes with sh:deactivated true
IsB == NodeShape("IsB", <<HasValue("b")>>)
TypedC == NodeShape("TypedC", <<Class("C")>>)
OffB == Shape("OffB", None, {}, TRUE, <<HasValue("b")>>, None, <<>>)
PMin == PropertyShape("PMin", "p", <<MinCount(2)>>)
OffP ==
    Shape("OffP", Some(<<Iri("p")>>), {}, TRUE, <<MinCount(2)>>,
          Some([ignored_properties |-> {}]), <<PropertyShape("OffQ", "q", <<MinCount(1)>>)>>)

LogicalConstraints ==
    {And(<<IsB, TypedC>>), And(<<OffB, TypedC>>), Or(<<OffB, TypedC>>),
     Xone(<<IsB, TypedC>>), Xone(<<OffB, TypedC>>), Not(IsB), Not(OffB), Not(OffP),
     Node(IsB), Node(OffB), Node(PMin)}

LogicalCases ==
    LET triples == {<<"a", "p", "b">>, <<"a", "p", "c">>, <<"b", "type", "C">>,
                    <<"c", "type", "C">>}
    IN {FocusCase(NodeShape("NLogic", <<c>>), triples, {"a", "b", "c"}) :
            c \in LogicalConstraints}
       \cup {FocusCase(PropertyShape("PLogic", "p", <<c>>), triples, {"a"}) :
                c \in LogicalConstraints}

\* shapes with nested property shapes and sh:closed
Holder(name, constraints, closed, property_shapes) ==
    Shape(name, None, {}, FALSE, constraints, closed, property_shapes)

PathShape(name, elements) == Shape(name, Some(elements), {}, FALSE, <<>>, None, <<>>)

NestedCases ==
    LET triples == {<<"a", "p", "b">>, <<"a", "q", "c">>, <<"b", "q", "c">>,
                    <<"a", "r", "b">>, <<"a", "type", "C">>}
        closed == Some([ignored_properties |-> {"type"}])
    IN {FocusCase(Holder("Phases", <<Class("C"), HasValue("b")>>, closed, <<PMin>>),
                  triples, {"a", "b"}),
        FocusCase(Holder("HolderOff", <<>>, None, <<OffP>>), triples, {"a", "b"}),
        FocusCase(Holder("HolderOn", <<>>, None, <<PMin>>), triples, {"a", "b"}),
        FocusCase(Holder("ClosedSeq", <<>>, closed,
                         <<PathShape("PSeq", <<Iri("p"), Iri("q")>>)>>),
                  triples, {"a"}),
        FocusCase(Holder("ClosedInv", <<>>, closed,
                         <<PathShape("PInv", <<Inverse("r"), Iri("q")>>)>>),
                  triples, {"a", "b"}),
        FocusCase(Holder("ClosedAlt", <<>>, closed,
                         <<PathShape("PAlt", <<Alternative(<<Iri("p"), Inverse("q"),
                                                              Iri("r")>>)>>)>>),
                  triples, {"a"})}

\* a property shape whose disjoint qualified value shape has counts no number
\* of conforming values meets (at least 2 and at most 0)
PDisj ==
    PropertyShape("PDisj", "p", <<QualifiedValueShape(QualifiedA, Some(2), Some(0), TRUE)>>)

\* PDisj validated directly, as an operand, and as a nested property shape
DirectQualifiedCases ==
    LET triples == {<<"a", "p", "b">>, <<"a", "p", "c">>, <<"a", "p", "l">>}
    IN {FocusCase(PDisj, triples, {"a"}),
        FocusCase(Holder("ParentDisj", <<>>, None, <<PDisj>>), triples, {"a"})}
       \cup {FocusCase(NodeShape("NDirect", <<c>>), triples, {"a"}) :
                c \in {Node(PDisj), And(<<PDisj>>), Or(<<PDisj>>), Xone(<<PDisj>>),
                       Not(PDisj)}}

FocusCatalog ==
    ClassCases \cup EqualsCases \cup LessThanCases \cup QualifiedCases \cup OrCases
        \cup RangeCases \cup LogicalCases \cup NestedCases \cup DirectQualifiedCases

FocusGraphs(case) == {g \in SUBSET case.triples : Cardinality(g) <= MaxFocusTriples}

FocusInit ==
    /\ ReportIdle /\ PathIdle /\ ValidateIdle /\ TargetIdle /\ ParseIdle /\ RestIdle
    /\ \E case \in FocusCatalog :
          /\ fn_shape = case.shape
          /\ fn_graph \in FocusGraphs(case)
          /\ fn_focus \in case.focus
    /\ fn_values = <<>>
    /\ fn_idx = 0
    /\ fn_report = NewReport
    /\ fpc = "enter"

\* let value_nodes = self.get_value_nodes(..)
GetValueNodesStep ==
    /\ fpc = "enter"
    /\ fn_values' = GetValueNodes(fn_graph, fn_shape, fn_focus)
    /\ fn_idx' = 1
    /\ fpc' = "constraints"
    /\ UNCHANGED <<fn_graph, fn_shape, fn_focus, fn_report, outsideFocus>>

\* one iteration of the loop of validate_constraints_on_values
ConstraintStep ==
    /\ fpc = "constraints"
    /\ fn_idx <= Len(fn_shape.constraints)
    /\ fn_report' = PushViolations(fn_report,
                        ValidateConstraint(fn_graph, fn_shape, fn_focus, fn_values,
                                           fn_shape.constraints[fn_idx]))
    /\ fn_idx' = fn_idx + 1
    /\ UNCHANGED <<fn_graph, fn_shape, fn_focus, fn_values, fpc, outsideFocus>>

\* a validate_focus_node that leaves the nested property shapes out once a
\* constraint has failed
NestedStepUnlessViolated ==
    /\ fpc = "constraints"
    /\ fn_idx > Len(fn_shape.constraints)
    /\ fn_report' = IF fn_report.conforms
                    THEN PushViolations(fn_report,
                             ValidateNestedPropertyShapes(fn_graph, fn_shape, fn_values))
                    ELSE fn_report
    /\ fpc' = "closed"
    /\ UNCHANGED <<fn_graph, fn_shape, fn_focus, fn_values, fn_idx, outsideFocus>>

\* self.validate_nested_property_shapes(..)
NestedStep ==
    /\ fpc = "constraints"
    /\ fn_idx > Len(fn_shape.constraints)
    /\ fn_report' = PushViolations(fn_report,
                        ValidateNestedPropertyShapes(fn_graph, fn_shape, fn_values))
    /\ fpc' = "closed"
    /\ UNCHANGED <<fn_graph, fn_shape, fn_focus, fn_values, fn_idx, outsideFocus>>

\* self.validate_closed_constraint(..)
ClosedStep ==
    /\ fpc = "closed"
    /\ fn_report' = PushViolations(fn_report,
                        ValidateClosedConstraint(fn_graph, fn_shape, fn_focus))
    /\ fpc' = "done"
    /\ UNCHANGED <<fn_graph, fn_shape, fn_focus, fn_values, fn_idx, outsideFocus>>

FocusNext ==
    \/ GetValueNodesStep
    \/ ConstraintStep
    \/ NestedStep
    \/ ClosedStep

SpecFocus == FocusInit /\ [][FocusNext]_vars

FocusDone == fpc = "done"

\* the steps give what the operator gives
FocusStepsAgreeWithOperator ==
    FocusDone => fn_report.results = ValidateFocusNode(fn_graph, fn_shape, fn_focus)

\* the results of one constraint component in the finished report
ResultsOf(component) ==
    SelectSeq(fn_report.results, LAMBDA r : r.source_constraint_component = component)

\* the values carried by the results of one constraint component
ValuesOf(component) ==
    {r.value[1] : r \in {x \in SeqToSet(ResultsOf(component)) : x.value # None}}

HasConstraint(kind) ==
    \E i \in 1..Len(fn_shape.constraints) : fn_shape.constraints[i].kind = kind

ConstraintOf(kind) ==
    fn_shape.constraints[CHOOSE i \in 1..Len(fn_shape.constraints) :
                             fn_shape.constraints[i].kind = kind]

\* a value node is an instance of class c or of a class below it
IsInstanceBelow(g, v, c) == v \in InstancesBelow(g, c)

\* C13: the Class constraint for class C reports no violation for a value node
\* that is an IRI or blank node with rdf:type C or rdf:type of a direct or
\* indirect subclass of C, and a violation for every other value node,
\* literals included.
C13_ClassRespectsSubclasses ==
    (FocusDone /\ HasConstraint("Class")) =>
        ValuesOf("ClassConstraintComponent") =
            {v \in SeqToSet(fn_values) :
                IsLiteral(v) \/ ~IsInstanceBelow(fn_graph, v, ConstraintOf("Class").class)}

\* what the validator does: only a direct rdf:type triple to C counts
ClassDirectTypeOnly ==
    (FocusDone /\ HasConstraint("Class")) =>
        ValuesOf("ClassConstraintComponent") =
            {v \in SeqToSet(fn_values) :
                IsLiteral(v)
                \/ <<v, RdfType, ConstraintOf("Class").class>> \notin fn_graph}

\* the values the constraint path of the shape's constraint of that kind
\* reaches from the focus node
OtherValues(kind) ==
    IF TermToNamedOrBlank(fn_focus) = None THEN <<>>
    ELSE ResolvePathForGivenNode(ConstraintOf(kind).path, fn_graph, fn_focus)

\* C14: for a property shape carrying Equals(P) there is no Equals violation
\* when the set of value nodes of the shape's path equals the set P reaches
\* from the focus node, and there is one when the sets differ; the focus node
\* itself is compared against the values of P only for a node shape.
C14_EqualsComparesSets ==
    (FocusDone /\ HasConstraint("Equals") /\ fn_shape.path # None) =>
        ((ResultsOf("EqualsConstraintComponent") = <<>>)
            <=> (SeqToSet(fn_values) = SeqToSet(OtherValues("Equals"))))

\* what the validator does: after the comparison of the sets, a property shape
\* goes on to compare the focus node with the values of P, as a node shape does
EqualsAlsoComparesFocus ==
    (FocusDone /\ HasConstraint("Equals") /\ TermToNamedOrBlank(fn_focus) # None) =>
        LET others == SeqToSet(OtherValues("Equals"))
            set_results == IF fn_shape.path # None /\ SeqToSet(fn_values) # others
                           THEN 1 ELSE 0
            focus_results == IF others = {} THEN 1
                             ELSE Cardinality(others \ {fn_focus})
        IN Len(ResultsOf("EqualsConstraintComponent")) = set_results + focus_results

\* the value nodes for which no value of the constraint path satisfies the
\* relation
WithoutPartner(kind, predicate) ==
    {v \in SeqToSet(fn_values) :
        ~\E o \in SeqToSet(OtherValues(kind)) : CompareValues(v, o, predicate)}

\* C15: for LessThan(P) and LessThanOrEquals(P), every value node for which no
\* value of P satisfies the relation yields a violation, also when P has no
\* value at all for the focus node, and a value node for which such a value
\* exists yields none.
C15_LessThanExistential ==
    /\ (FocusDone /\ HasConstraint("LessThan")) =>
          ValuesOf("LessThanConstraintComponent") = WithoutPartner("LessThan", "lt")
    /\ (FocusDone /\ HasConstraint("LessThanOrEquals")) =>
          ValuesOf("LessThanOrEqualsConstraintComponent") =
              WithoutPartner("LessThanOrEquals", "le")

\* what the validators do: nothing is reported when P has no values
LessThanSilentWithoutValues ==
    /\ (FocusDone /\ HasConstraint("LessThan")) =>
          ValuesOf("LessThanConstraintComponent") =
              IF OtherValues("LessThan") = <<>> THEN {}
              ELSE WithoutPartner("LessThan", "lt")
    /\ (FocusDone /\ HasConstraint("LessThanOrEquals")) =>
          ValuesOf("LessThanOrEqualsConstraintComponent") =
              IF OtherValues("LessThanOrEquals") = <<>> THEN {}
              ELSE WithoutPartner("LessThanOrEquals", "le")

\* a term conforms to a shape: the shape is deactivated or validating the term
\* against it gives no result
Conforms(g, shape, term) ==
    shape.deactivated \/ ValidateFocusNode(g, shape, term) = <<>>

\* the qualified value shapes of the property shapes of the parent other than
\* its ps_idx-th
SiblingShapes(parent, ps_idx) ==
    UNION {SeqToSet(QualifiedShapesOf(parent.property_shapes[i])) :
             i \in (1..Len(parent.property_shapes)) \ {ps_idx}}

\* the number of value nodes of the ps_idx-th property shape that conform to
\* the qualified value shape of its constraint c and to no sibling
DisjointCount(g, parent, ps_idx, c, focus_node) ==
    LET values == GetValueNodes(g, parent.property_shapes[ps_idx], focus_node)
    IN Cardinality({i \in 1..Len(values) :
           /\ Conforms(g, c.shape, values[i])
           /\ \A sibling \in SiblingShapes(parent, ps_idx) :
                 ~Conforms(g, sibling, values[i])})

\* the same, counting as the validator counts: literal value nodes are skipped
DisjointCountOfNodes(g, parent, ps_idx, c, focus_node) ==
    LET values == GetValueNodes(g, parent.property_shapes[ps_idx], focus_node)
    IN Cardinality({i \in 1..Len(values) :
           /\ ~IsLiteral(values[i])
           /\ Conforms(g, c.shape, values[i])
           /\ \A sibling \in SiblingShapes(parent, ps_idx) :
                 ~Conforms(g, sibling, values[i])})

\* a result of the given component is reported for the named property shape
Reported(shape_name, component) ==
    \E i \in 1..Len(fn_report.results) :
        /\ fn_report.results[i].source_shape = shape_name
        /\ fn_report.results[i].source_constraint_component = component

\* the min and max violations of every disjoint qualified value shape of the
\* parent are those of the count given by the flag
QualifiedViolationsFollow(count_literals) ==
    \A ps_idx \in 1..Len(fn_shape.property_shapes) :
        LET ps == fn_shape.property_shapes[ps_idx]
        IN \A k \in 1..Len(ps.constraints) :
              LET c == ps.constraints[k]
                  count == IF count_literals
                           THEN DisjointCount(fn_graph, fn_shape, ps_idx, c, fn_focus)
                           ELSE DisjointCountOfNodes(fn_graph, fn_shape, ps_idx, c,
                                                     fn_focus)
              IN IsDisjointQualified(c) =>
                    /\ Reported(ps.node, "QualifiedMinCountConstraintComponent")
                          <=> (c.qualified_min_count # None
                               /\ count < c.qualified_min_count[1])
                    /\ Reported(ps.node, "QualifiedMaxCountConstraintComponent")
                          <=> (c.qualified_max_count # None
                               /\ count > c.qualified_max_count[1])

\* C16: under a parent whose nested property shapes carry disjoint qualified
\* value shapes, the count used for one of them (A) is the number of value
\* nodes that conform to A and to no sibling qualified value shape; a
\* QualifiedMinCount violation is reported exactly when the count is below
\* qualifiedMinCount and a QualifiedMaxCount violation exactly when it is above
\* qualifiedMaxCount.
C16_DisjointCount ==
    (FocusDone /\ fn_shape.property_shapes # <<>>) => QualifiedViolationsFollow(TRUE)

\* what the validator does: the rule holds for the IRI and blank value nodes
QualifiedCountsNodesOnly ==
    (FocusDone /\ fn_shape.property_shapes # <<>>) => QualifiedViolationsFollow(FALSE)

\* the results of the shapes of `nested_shapes`, in order, for one value node
RECURSIVE BranchResults(_, _, _)
BranchResults(g, nested_shapes, value_node) ==
    IF nested_shapes = <<>> THEN <<>>
    ELSE ValidateFocusNode(g, Head(nested_shapes), value_node)
         \o BranchResults(g, Tail(nested_shapes), value_node)

NoBranchConforms(g, nested_shapes, value_node) ==
    \A i \in 1..Len(nested_shapes) :
        ValidateFocusNode(g, nested_shapes[i], value_node) # <<>>

\* the Or results of the finished report that carry the value
OrResultsFor(value_node) ==
    SelectSeq(ResultsOf("OrConstraintComponent"),
              LAMBDA r : r.value = Some(value_node))

\* C18: for every value node the Or constraint emits exactly one violation
\* when none of its shapes conforms for the value node, and the details of
\* that violation hold the results of every failing branch; when at least one
\* shape conforms nothing is emitted for the value node.
C18_OrOneViolationWithDetails ==
    (FocusDone /\ HasConstraint("Or")) =>
        \A i \in 1..Len(fn_values) :
            LET v == fn_values[i]
                nested_shapes == ConstraintOf("Or").shapes
            IN IF NoBranchConforms(fn_graph, nested_shapes, v)
               THEN /\ Len(OrResultsFor(v)) = 1
                    /\ OrResultsFor(v)[1].details =
                          BranchResults(fn_graph, nested_shapes, v)
               ELSE OrResultsFor(v) = <<>>

\* C18 witness: one value node fails both branches, with three branch results
\* in the details of its violation, while another value node conforms to a
\* branch and gets no result
C18_Witness ==
    /\ FocusDone /\ HasConstraint("Or")
    /\ Len(fn_values) >= 2
    /\ Len(ResultsOf("OrConstraintComponent")) = 1
    /\ Len(ResultsOf("OrConstraintComponent")[1].details) = 3

\* the relation each range constraint asks of (value node, bound)
RangePredicate(kind) ==
    CASE kind = "MinExclusive" -> "gt"
      [] kind = "MinInclusive" -> "ge"
      [] kind = "MaxExclusive" -> "lt"
      [] kind = "MaxInclusive" -> "le"

\* the order of two numbers: no relation holds when one of them is NaN, unless
\* nan_equal says that NaN is taken as equal to every number
NumericHolds(x, y, predicate, nan_equal) ==
    IF x.nan \/ y.nan THEN nan_equal /\ predicate \in {"le", "ge"}
    ELSE CASE predicate = "lt" -> x.n < y.n
           [] predicate = "le" -> x.n <= y.n
           [] predicate = "gt" -> x.n > y.n
           [] predicate = "ge" -> x.n >= y.n

\* the order of two lexical forms
LexicalHolds(x, y, predicate) ==
    CASE predicate = "lt" -> LexicalRank(x) < LexicalRank(y)
      [] predicate = "le" -> LexicalRank(x) <= LexicalRank(y)
      [] predicate = "gt" -> LexicalRank(x) > LexicalRank(y)
      [] predicate = "ge" -> LexicalRank(x) >= LexicalRank(y)

\* the comparison discipline: numeric when both literals parse as numbers,
\* lexicographic when neither does, failing otherwise
DisciplineHolds(x, y, predicate, nan_equal) ==
    /\ IsLiteral(x) /\ IsLiteral(y)
    /\ \/ /\ ParseF64(x) # None /\ ParseF64(y) # None
          /\ NumericHolds(ParseF64(x)[1], ParseF64(y)[1], predicate, nan_equal)
       \/ /\ ParseF64(x) = None /\ ParseF64(y) = None
          /\ LexicalHolds(x, y, predicate)

RangeComponent(kind) == kind \o "ConstraintComponent"

\* the range constraints report exactly the value nodes that fail the
\* discipline against the bound
RangeFollowsDiscipline(nan_equal) ==
    \A kind \in RangeKinds :
        (FocusDone /\ HasConstraint(kind)) =>
            ValuesOf(RangeComponent(kind)) =
                {v \in SeqToSet(fn_values) :
                    ~DisciplineHolds(v, ConstraintOf(kind).term, RangePredicate(kind),
                                     nan_equal)}

\* C19: the comparison of the range constraints and of LessThan /
\* LessThanOrEquals is numeric when both literals parse as numbers and
\* lexicographic on the lexical forms when neither does; it fails for every
\* relation when exactly one parses as a number or an operand is not a
\* literal, so that the range constraints report a violation for the value node.
C19_ComparisonDiscipline == RangeFollowsDiscipline(FALSE)

\* what the code does: a NaN operand is taken as equal to every number
ComparisonTakesNaNAsEqual ==
    /\ RangeFollowsDiscipline(TRUE)
    /\ \A x, y \in Nodes \cup Literals : \A predicate \in {"lt", "le", "gt", "ge"} :
          CompareValues(x, y, predicate) = DisciplineHolds(x, y, predicate, TRUE)

----------------------------------------------------------------------------
(* parser/mod.rs, parser/path.rs, parser/target.rs: the shape compiler.  A  *)
(* Result is a record: ok tells Ok from Err, val is the value of an Ok.     *)

MaxListLen == 3
MaxClosedTriples == 3

Ok(v) == [ok |-> TRUE, val |-> v]
Err == [ok |-> FALSE, val |-> <<>>]

IsNamed(t) == ~IsLiteral(t) /\ ~IsBlank(t)

GraphObjects(triples) == [i \in 1..Len(triples) |-> triples[i][3]]

\* Graph::objects_for_subject_predicate and object_for_subject_predicate
ObjectsForSubjectPredicate(g, s, p) ==
    GraphObjects(GraphIter({t \in g : t[1] = s /\ t[2] = p}))
ObjectForSubjectPredicate(g, s, p) ==
    LET objects == ObjectsForSubjectPredicate(g, s, p)
    IN IF objects = <<>> THEN None ELSE Some(objects[1])

\* utils::get_boolean_value: the lexical form is parsed as a bool
GetBooleanValue(g, s, p) ==
    LET object == ObjectForSubjectPredicate(g, s, p)
    IN IF object # None /\ IsLiteral(object[1]) /\ object[1] \in {"true", "false"}
       THEN Some(object[1] = "true")
       ELSE None

\* utils::get_integer_value: the lexical form is parsed as an i32
GetIntegerValue(g, s, p) ==
    LET object == ObjectForSubjectPredicate(g, s, p)
        number == IF object # None /\ IsLiteral(object[1]) THEN ParseF64(object[1])
                  ELSE None
    IN IF number # None /\ ~number[1].nan THEN Some(number[1].n) ELSE None

\* utils::parse_rdf_list; the loop has no guard against a cyclic list, the
\* lists of the model end after at most MaxListLen cells
RECURSIVE ParseRdfListFrom(_, _, _)
ParseRdfListFrom(g, current, cells) ==
    IF current = "rdf:nil" \/ cells = 0 THEN <<>>
    ELSE LET first == ObjectForSubjectPredicate(g, current, "rdf:first")
             rest == ObjectForSubjectPredicate(g, current, "rdf:rest")
         IN first \o (IF rest # None /\ ~IsLiteral(rest[1])
                      THEN ParseRdfListFrom(g, rest[1], cells - 1)
                      ELSE <<>>)

ParseRdfList(g, list_node) == ParseRdfListFrom(g, list_node, MaxListLen)

\* parser::path::parse_path_element; of the path predicates the shapes graphs
\* of the model use sh:inversePath only
ParsePathElement(g, node) ==
    LET inverse == ObjectForSubjectPredicate(g, node, "sh:inversePath")
    IN IF inverse # None /\ IsNamed(inverse[1]) THEN Ok(Inverse(inverse[1]))
       ELSE Err

\* the loop of parse_path over the items of a sequence path
RECURSIVE ParsePathItems(_, _)
ParsePathItems(g, items) ==
    IF items = <<>> THEN Ok(<<>>)
    ELSE LET item == Head(items)
             element == IF IsNamed(item) THEN Ok(Iri(item))
                        ELSE IF IsBlank(item) THEN ParsePathElement(g, item)
                        ELSE Err
             rest == ParsePathItems(g, Tail(items))
         IN IF element.ok /\ rest.ok THEN Ok(<<element.val>> \o rest.val) ELSE Err

\* parser::path::parse_path
ParsePath(g, path_term) ==
    IF IsNamed(path_term) THEN Ok(<<Iri(path_term)>>)
    ELSE IF IsBlank(path_term)
    THEN IF ObjectForSubjectPredicate(g, path_term, "rdf:first") # None
         THEN ParsePathItems(g, ParseRdfList(g, path_term))
         ELSE LET element == ParsePathElement(g, path_term)
              IN IF element.ok THEN Ok(<<element.val>>) ELSE Err
    ELSE Err

\* parser::target::parse_targets; the shapes graphs of the model declare
\* targets by sh:targetClass and sh:targetNode
ParseTargets(g, node) ==
    {TargetClass(o) : o \in {x \in SeqToSet(ObjectsForSubjectPredicate(g, node,
                                     "sh:targetClass")) : ~IsLiteral(x)}}
    \cup {TargetNode(o) : o \in SeqToSet(ObjectsForSubjectPredicate(g, node,
                                                                    "sh:targetNode"))}

\* parse_closed_constraint
ParseClosedConstraint(g, node) ==
    IF GetBooleanValue(g, node, "sh:closed") = Some(TRUE)
    THEN LET list_node == ObjectForSubjectPredicate(g, node, "sh:ignoredProperties")
         IN IF list_node = None THEN Some([ignored_properties |-> {}])
            ELSE IF ~IsNamed(list_node[1]) THEN Some([ignored_properties |-> {}])
            ELSE Some([ignored_properties |->
                          {t \in SeqToSet(ParseRdfList(g, list_node[1])) : IsNamed(t)}])
    ELSE None

\* Result::ok() kept by a filter_map: the value of an Ok, nothing for an Err
KeepOk(result) == IF result.ok THEN <<result.val>> ELSE <<>>

\* `if let Ok(shape) = parse_shape(..) { constraints.push(Constraint::Node(..)) }`
NodeConstraintOf(result) == IF result.ok THEN <<Node(result.val)>> ELSE <<>>

\* the `?` on parse_path and on parse_all_constraints, then the shape built
\* from their values
ShapeFrom(node, parsed_path, targets, deactivated, constraints, closed,
          property_shapes) ==
    IF ~parsed_path.ok \/ ~constraints.ok THEN Err
    ELSE Ok(Shape(node, parsed_path.val, targets, deactivated, constraints.val,
                  closed, property_shapes))

\* Some(path) under the Result of parse_path
PathOption(result) == IF result.ok THEN Ok(Some(result.val)) ELSE Err

RECURSIVE ParseShape(_, _)
RECURSIVE ParsePropertyShape(_, _)
RECURSIVE ParseEachProperty(_, _)
RECURSIVE ParseEachNode(_, _)

\* parse_nested_property_shapes
ParseNestedPropertyShapes(g, node) ==
    ParseEachProperty(g, SelectSeq(ObjectsForSubjectPredicate(g, node, "sh:property"),
                                   LAMBDA o : ~IsLiteral(o)))

\* the filter_map over the sh:property objects: a property shape that fails
\* to parse is left out
ParseEachProperty(g, nodes) ==
    IF nodes = <<>> THEN <<>>
    ELSE KeepOk(ParsePropertyShape(g, Head(nodes)))
         \o ParseEachProperty(g, Tail(nodes))

\* parser::constraints::sh_node: a shape that fails to parse gives no constraint
ParseEachNode(g, nodes) ==
    IF nodes = <<>> THEN <<>>
    ELSE NodeConstraintOf(ParseShape(g, Head(nodes)))
         \o ParseEachNode(g, Tail(nodes))

\* parse_all_constraints; of the constraint parsers the shapes graphs of the
\* model reach min_count and sh_node, which never return Err
ParseAllConstraints(g, node) ==
    LET min_count == GetIntegerValue(g, node, "sh:minCount")
    IN Ok((IF min_count # None THEN <<MinCount(min_count[1])>> ELSE <<>>)
          \o ParseEachNode(g, SelectSeq(ObjectsForSubjectPredicate(g, node, "sh:node"),
                                        LAMBDA o : ~IsLiteral(o))))

\* apply_common_shape_properties: sh:deactivated
ParseDeactivated(g, node) ==
    LET deactivated == GetBooleanValue(g, node, "sh:deactivated")
    IN deactivated # None /\ deactivated[1]

\* parse_property_shape: a shape node without sh:path is an Err
ParsePropertyShape(g, node) ==
    LET path_obj == ObjectForSubjectPredicate(g, node, "sh:path")
    IN ShapeFrom(node,
                 IF path_obj # None THEN PathOption(ParsePath(g, path_obj[1])) ELSE Err,
                 {}, ParseDeactivated(g, node), ParseAllConstraints(g, node), None,
                 ParseNestedPropertyShapes(g, node))

\* parse_top_level_property_shape
ParseTopLevelPropertyShape(g, node, path_obj) ==
    ShapeFrom(node, PathOption(ParsePath(g, path_obj)), ParseTargets(g, node),
              ParseDeactivated(g, node), ParseAllConstraints(g, node), None,
              ParseNestedPropertyShapes(g, node))

\* parse_node_shape_internal with include_targets = true
ParseNodeShapeInternal(g, node) ==
    ShapeFrom(node, Ok(None), ParseTargets(g, node), ParseDeactivated(g, node),
              ParseAllConstraints(g, node), ParseClosedConstraint(g, node),
              ParseNestedPropertyShapes(g, node))

\* parse_shape
ParseShape(g, node) ==
    LET path_obj == ObjectForSubjectPredicate(g, node, "sh:path")
    IN IF path_obj # None THEN ParseTopLevelPropertyShape(g, node, path_obj[1])
       ELSE ParseNodeShapeInternal(g, node)

\* find_shape_nodes
FindShapeNodes(g) ==
    {t[1] : t \in {u \in g : /\ u[2] = RdfType
                             /\ u[3] \in {"sh:NodeShape", "sh:PropertyShape",
                                          "sh:Shape"}}}
    \cup {t[1] : t \in {u \in g : u[2] \in {"sh:targetClass", "sh:targetNode"}}}

\* PushParsed giving up the shapes compiled so far when a shape fails
PushParsedOrAbort(shapes_so_far, result) ==
    IF result.ok THEN Append(shapes_so_far, result.val) ELSE <<>>

\* the match on parse_shape's result in the loop of parse_shapes: Ok pushes
\* the shape, Err logs a warning
PushParsed(shapes_so_far, result) ==
    IF result.ok THEN Append(shapes_so_far, result.val) ELSE shapes_so_far

----------------------------------------------------------------------------
(* parse_shapes, one shape node per step, followed by the validation of a   *)
(* compiled closed shape on a focus node                                    *)

\* the declarations of S1, a closed node shape with the property shape PN on
\* `name`: sh:closed and sh:ignoredProperties vary
ClosedDeclarations ==
    {{<<"S1", "sh:closed", "true">>}, {<<"S1", "sh:closed", "false">>}, {}}

IgnoredDeclarations ==
    {{},
     {<<"S1", "sh:ignoredProperties", "_:l">>, <<"_:l", "rdf:first", "type">>,
      <<"_:l", "rdf:rest", "rdf:nil">>},
     {<<"S1", "sh:ignoredProperties", "L">>, <<"L", "rdf:first", "type">>,
      <<"L", "rdf:rest", "rdf:nil">>},
     {<<"S1", "sh:ignoredProperties", "rdf:nil">>},
     {<<"S1", "sh:ignoredProperties", "l">>}}

S1Declarations ==
    {{}} \cup
    {{<<"S1", "type", "sh:NodeShape">>, <<"S1", "sh:minCount", "1">>,
      <<"S1", "sh:property", "PN">>, <<"PN", "sh:path", "name">>}
       \cup closed \cup ignored :
          closed \in ClosedDeclarations, ignored \in IgnoredDeclarations}

\* the declarations of S2, a property shape whose sh:path varies
S2Declarations ==
    {{},
     {<<"S2", "type", "sh:PropertyShape">>, <<"S2", "sh:path", "p">>},
     {<<"S2", "type", "sh:PropertyShape">>, <<"S2", "sh:path", "l">>},
     {<<"S2", "type", "sh:PropertyShape">>, <<"S2", "sh:path", "_:b">>,
      <<"_:b", "sh:inversePath", "p">>},
     {<<"S2", "type", "sh:PropertyShape">>, <<"S2", "sh:path", "_:b">>},
     {<<"S2", "type", "sh:PropertyShape">>, <<"S2", "sh:path", "_:b">>,
      <<"_:b", "rdf:first", "l">>, <<"_:b", "rdf:rest", "rdf:nil">>},
     {<<"S2", "sh:targetNode", "a">>, <<"S2", "sh:path", "l">>}}

\* the declarations of S3, a node shape that may refer to S2
S3Declarations ==
    {{},
     {<<"S3", "type", "sh:NodeShape">>, <<"S3", "sh:targetNode", "a">>},
     {<<"S3", "type", "sh:Shape">>, <<"S3", "sh:node", "S2">>},
     {<<"S3", "sh:targetClass", "C">>, <<"S3", "sh:property", "S2">>}}

ShapesGraphs ==
    {s1 \cup s2 \cup s3 : s1 \in S1Declarations, s2 \in S2Declarations,
                          s3 \in S3Declarations}

ClosedTriples ==
    {<<"a", "name", "l">>, <<"a", "type", "T">>, <<"a", "extra", "1">>,
     <<"a", "extra", "b">>}

ClosedGraphs == {g \in SUBSET ClosedTriples : Cardinality(g) <= MaxClosedTriples}

ParseInit ==
    /\ ReportIdle /\ PathIdle /\ ValidateIdle /\ TargetIdle /\ FocusIdle /\ RestIdle
    /\ shapes_graph \in ShapesGraphs
    /\ shape_nodes = {}
    /\ parsed = <<>>
    /\ failed = {}
    /\ prs_pc = "start"

\* let shape_nodes = find_shape_nodes(graph)
FindShapeNodesStep ==
    /\ prs_pc = "start"
    /\ shape_nodes' = FindShapeNodes(shapes_graph)
    /\ prs_pc' = "loop"
    /\ UNCHANGED <<shapes_graph, parsed, failed, focusVars, outsideParse>>

\* one iteration of `for shape_node in shape_nodes`; the HashSet is iterated
\* in an arbitrary order
ParseOneShape ==
    /\ prs_pc = "loop"
    /\ \E shape_node \in shape_nodes :
          LET result == ParseShape(shapes_graph, shape_node)
          IN /\ parsed' = PushParsed(parsed, result)
             /\ failed' = IF result.ok THEN failed ELSE failed \cup {shape_node}
             /\ shape_nodes' = shape_nodes \ {shape_node}
    /\ UNCHANGED <<shapes_graph, prs_pc, focusVars, outsideParse>>

\* Ok(shapes)
ParseShapesReturn ==
    /\ prs_pc = "loop"
    /\ shape_nodes = {}
    /\ prs_pc' = "done"
    /\ UNCHANGED <<shapes_graph, shape_nodes, parsed, failed, focusVars, outsideParse>>

\* a compiled closed shape is handed to validate_focus_node with a data
\* graph and the focus node a
StartClosedValidation ==
    /\ prs_pc = "done"
    /\ \E i \in 1..Len(parsed) :
          /\ parsed[i].closed # None
          /\ fn_shape' = parsed[i]
    /\ fn_graph' \in ClosedGraphs
    /\ fn_focus' = "a"
    /\ fn_values' = <<>>
    /\ fn_idx' = 0
    /\ fn_report' = NewReport
    /\ fpc' = "enter"
    /\ prs_pc' = "validating"
    /\ UNCHANGED <<shapes_graph, shape_nodes, parsed, failed, outsideParse>>

ParseNext ==
    \/ FindShapeNodesStep
    \/ ParseOneShape
    \/ ParseShapesReturn
    \/ StartClosedValidation
    \/ GetValueNodesStep
    \/ ConstraintStep
    \/ NestedStep
    \/ ClosedStep

SpecParse == ParseInit /\ [][ParseNext]_vars

ParseDone == prs_pc \in {"done", "validating"}

\* the shapes parse_shapes returns are the shape nodes parse_shape succeeds on
ParsedAreTheParsable ==
    ParseDone =>
        /\ SeqToSet(parsed) =
              {ParseShape(shapes_graph, n).val :
                  n \in {m \in FindShapeNodes(shapes_graph) :
                            ParseShape(shapes_graph, m).ok}}
        /\ failed = {m \in FindShapeNodes(shapes_graph) :
                        ~ParseShape(shapes_graph, m).ok}

\* the IRIs a shape node declares by sh:ignoredProperties: the members of the
\* RDF list the property points to, or those of a list headed by an IRI only
IgnoredMembers(g, node, named_heads_only) ==
    LET head == ObjectForSubjectPredicate(g, node, "sh:ignoredProperties")
    IN IF head = None \/ IsLiteral(head[1]) \/ (named_heads_only /\ IsBlank(head[1]))
       THEN {}
       ELSE {t \in SeqToSet(ParseRdfList(g, head[1])) : IsNamed(t)}

\* the direct predicates of the nested property shapes of a compiled shape
DeclaredPredicates(shape) ==
    UNION {IF shape.property_shapes[i].path = None THEN {}
           ELSE SeqToSet(ExtractDirectPredicates(shape.property_shapes[i].path[1])) :
             i \in 1..Len(shape.property_shapes)}

\* the closed results of the finished report are one per outgoing triple of
\* the focus node whose predicate is neither ignored nor declared, with the
\* object of the triple as value
ClosedResultsFollow(named_heads_only) ==
    (prs_pc = "validating" /\ FocusDone) =>
        LET allowed == IgnoredMembers(shapes_graph, fn_shape.node, named_heads_only)
                           \cup DeclaredPredicates(fn_shape)
            offending == SelectSeq(TriplesForSubject(fn_graph, fn_focus),
                                   LAMBDA t : t[2] \notin allowed)
            closed_results == ResultsOf("ClosedConstraintComponent")
        IN /\ Len(closed_results) = Len(offending)
           /\ \A i \in 1..Len(offending) :
                 closed_results[i].value = Some(offending[i][3])

\* C17: compiling and validating a node shape with sh:closed true,
\* sh:ignoredProperties given as an RDF list and nested property shapes gives
\* one ClosedConstraintComponent violation per outgoing triple of the focus
\* node whose predicate is neither in the list nor the direct predicate of a
\* nested property shape, with the object as value, and none for the others.
C17_ClosedWithIgnoredList == ClosedResultsFollow(FALSE)

\* what the compiler does: a list headed by a blank node is taken as no list
ClosedIgnoresNamedListsOnly == ClosedResultsFollow(TRUE)

\* a shape node whose sh:path parse_path rejects
InvalidPath(g, node) ==
    LET path_obj == ObjectForSubjectPredicate(g, node, "sh:path")
    IN path_obj # None /\ ~ParsePath(g, path_obj[1]).ok

InvalidPathNodes(g) == {n \in FindShapeNodes(g) : InvalidPath(g, n)}

\* C20: when one candidate shape node has a structurally invalid sh:path,
\* parse_shapes still returns, with every other shape of the graph compiled;
\* only the shape with the invalid path is missing from the list.
C20_InvalidPathSkipsOneShape ==
    (ParseDone /\ Cardinality(InvalidPathNodes(shapes_graph)) = 1) =>
        LET others == FindShapeNodes(shapes_graph) \ InvalidPathNodes(shapes_graph)
        IN /\ {parsed[i].node : i \in 1..Len(parsed)} = others
           /\ Len(parsed) = Cardinality(others)
           /\ \A i \in 1..Len(parsed) :
                 parsed[i] = ParseShape(shapes_graph, parsed[i].node).val

\* C20 witness: S2 has an invalid path and was logged, S1 and S3 are returned
C20_Witness ==
    /\ prs_pc = "done"
    /\ InvalidPathNodes(shapes_graph) = {"S2"}
    /\ failed = {"S2"}
    /\ {parsed[i].node : i \in 1..Len(parsed)} = {"S1", "S3"}

----------------------------------------------------------------------------
(* SpecValidate: focus nodes selected by several targets *)

\* the nodes the targets of a shape select
TargetedNodes(shape, g) ==
    UNION {ResolveTargetForGivenGraph(t, g) : t \in shape.targets}

\* the nodes selected by more than one target of the shape
SelectedTwice(shape, g) ==
    {n \in TargetedNodes(shape, g) :
        Cardinality({t \in shape.targets : n \in ResolveTargetForGivenGraph(t, g)}) > 1}

\* C28: in one run of validate_with_target_cache each focus node of the shape
\* is evaluated exactly once even when several targets select it: the focus
\* nodes are the nodes the targets select, each listed once, each with one
\* node report, and the report of the shape holds the results of each focus
\* node once.
C28_FocusNodeEvaluatedOnce ==
    \A i \in DOMAIN shapes :
        (shape_pc[i] # "pending" /\ ~shapes[i].deactivated) =>
            /\ SeqToSet(focus_nodes_vec[i]) = TargetedNodes(shapes[i], data_graph)
            /\ \A n \in TargetedNodes(shapes[i], data_graph) :
                  Occurrences(focus_nodes_vec[i], n) = 1
            /\ DOMAIN focus_reports[i] = DOMAIN focus_nodes_vec[i]
            /\ shape_pc[i] = "done" =>
                  SameCollection(shape_reports[i][1].results,
                      FocusResultsInOrder(data_graph, shapes[i],
                          SortByRank(TargetedNodes(shapes[i], data_graph))))

\* C28 witness: node a is selected by the node target and by the class target
\* of S_overlap, whose finished report holds the results of a once
C28_Witness ==
    \E i \in DOMAIN shapes :
        /\ shapes[i] = S_overlap
        /\ shape_pc[i] = "done"
        /\ "a" \in SelectedTwice(S_overlap, data_graph)
        /\ ValidateFocusNode(data_graph, S_overlap, "a") # <<>>
        /\ Len(SelectSeq(shape_reports[i][1].results, LAMBDA r : r.focus_node = "a"))
             = Len(ValidateFocusNode(data_graph, S_overlap, "a"))

----------------------------------------------------------------------------
(* SpecFocus: deactivated shapes reached inside an active shape *)

\* a shape every node conforms to, in the place of `shape`
AlwaysConforming(shape) == Shape(shape.node, shape.path, {}, TRUE, <<>>, None, <<>>)

RECURSIVE Nested(_, _)
\* `shape` with each deactivated nested property shape and each deactivated
\* operand of sh:and, sh:or, sh:xone and sh:not replaced by a shape all nodes
\* conform to (conforming) or by the same shape, active (otherwise)
Nested(shape, conforming) ==
    LET sub(sh) == IF sh.deactivated
                   THEN IF conforming THEN AlwaysConforming(sh)
                        ELSE Nested([sh EXCEPT !.deactivated = FALSE], conforming)
                   ELSE Nested(sh, conforming)
        con(c) == CASE c.kind \in {"And", "Or", "Xone"} ->
                          [c EXCEPT !.shapes = [i \in 1..Len(c.shapes) |-> sub(c.shapes[i])]]
                    [] c.kind = "Not" -> [c EXCEPT !.shape = sub(c.shape)]
                    [] OTHER -> c
    IN [shape EXCEPT
           !.constraints = [i \in 1..Len(shape.constraints) |-> con(shape.constraints[i])],
           !.property_shapes =
               [i \in 1..Len(shape.property_shapes) |-> sub(shape.property_shapes[i])]]

\* C23: a deactivated shape reached inside the validation of an active shape,
\* as a nested property shape or as an operand of sh:and, sh:or, sh:xone or
\* sh:not, is treated as conforming for every focus node: the report is the
\* one obtained with a shape all nodes conform to in its place.
C23_DeactivatedNestedConforms ==
    FocusDone =>
        fn_report.results = ValidateFocusNode(fn_graph, Nested(fn_shape, TRUE), fn_focus)

\* what the validator does: a nested property shape and an operand of sh:and,
\* sh:or, sh:xone or sh:not are evaluated whatever their `deactivated` is
DeactivatedNestedEvaluated ==
    FocusDone =>
        fn_report.results = ValidateFocusNode(fn_graph, Nested(fn_shape, FALSE), fn_focus)

----------------------------------------------------------------------------
(* SpecFocus: the phases of validate_focus_node *)

\* the results of the first k constraints of the shape, in list order
ConstraintPhase(k) ==
    ValidateConstraintsOnValues(fn_graph, fn_shape, fn_focus,
        GetValueNodes(fn_graph, fn_shape, fn_focus), SubSeq(fn_shape.constraints, 1, k))

NestedPhase ==
    ValidateNestedPropertyShapes(fn_graph, fn_shape,
                                 GetValueNodes(fn_graph, fn_shape, fn_focus))

ClosedPhase == ValidateClosedConstraint(fn_graph, fn_shape, fn_focus)

\* what the report holds at each position of validate_focus_node
PhaseResults ==
    CASE fpc = "enter" -> <<>>
      [] fpc = "constraints" -> ConstraintPhase(fn_idx - 1)
      [] fpc = "closed" -> ConstraintPhase(Len(fn_shape.constraints)) \o NestedPhase
      [] fpc = "done" ->
            ConstraintPhase(Len(fn_shape.constraints)) \o NestedPhase \o ClosedPhase

\* C24: one evaluation of a shape on a focus node goes through its phases once
\* each and in the order constraints (in list order), nested property shapes,
\* sh:closed; a violation of an earlier phase neither skips nor aborts a later
\* one, and the report holds the results in that order.
C24_PhasesInOrder ==
    /\ [][\/ fpc = "enter" /\ fpc' = "constraints" /\ fn_idx' = 1
          \/ /\ fpc = "constraints" /\ fpc' = "constraints"
             /\ fn_idx <= Len(fn_shape.constraints) /\ fn_idx' = fn_idx + 1
          \/ /\ fpc = "constraints" /\ fpc' = "closed"
             /\ fn_idx = Len(fn_shape.constraints) + 1
          \/ fpc = "closed" /\ fpc' = "done"]_vars
    /\ [](/\ fn_report.results = PhaseResults
          /\ fn_report.conforms = (PhaseResults = <<>>))

\* C24 witness: every phase has added a result: sh:class and sh:hasValue, then
\* the nested property shape, then sh:closed
C24_Witness ==
    /\ FocusDone
    /\ fn_shape.node = "Phases"
    /\ [i \in 1..Len(fn_report.results) |->
           fn_report.results[i].source_constraint_component]
         = <<"ClassConstraintComponent", "HasValueConstraintComponent",
             "MinCountConstraintComponent", "ClosedConstraintComponent">>

----------------------------------------------------------------------------
(* SpecFocus: a disjoint qualified value shape outside a nested property shape *)

OwnsDisjointQualified(shape) ==
    \E i \in 1..Len(shape.constraints) : IsDisjointQualified(shape.constraints[i])

\* the operand shapes of the constraints of a shape
Operands(shape) ==
    UNION {LET c == shape.constraints[i]
           IN CASE c.kind \in {"And", "Or", "Xone"} -> SeqToSet(c.shapes)
                [] c.kind \in {"Not", "Node"} -> {c.shape}
                [] OTHER -> {} : i \in 1..Len(shape.constraints)}

\* the shapes with a disjoint qualified value shape that the evaluation of
\* fn_shape reaches through the generic dispatch: fn_shape itself and the
\* operands of its constraints
DirectOwners ==
    {sh.node : sh \in {x \in {fn_shape} \cup Operands(fn_shape) : OwnsDisjointQualified(x)}}

QualifiedComponents ==
    {"QualifiedMinCountConstraintComponent", "QualifiedMaxCountConstraintComponent"}

\* the results of the report with the results they carry as details
ResultsAndDetails ==
    SeqToSet(fn_report.results)
    \cup UNION {SeqToSet(fn_report.results[i].details) : i \in 1..Len(fn_report.results)}

\* C29: a disjoint qualified value shape never emits a result when the
\* property shape owning it is evaluated through the generic dispatch, as the
\* shape validated or as an operand of sh:node, sh:and, sh:or, sh:xone or
\* sh:not, whatever its counts and the value nodes: the owner counts as
\* conforming there; the counts are enforced where the owner is a nested
\* property shape.
C29_DisjointQualifiedSilentWhenDirect ==
    FocusDone =>
        /\ \A r \in ResultsAndDetails :
              r.source_constraint_component \in QualifiedComponents
                  => r.source_shape \notin DirectOwners
        /\ \A c \in SeqToSet(fn_shape.constraints) :
              (c.kind \in {"Node", "And", "Or", "Xone", "Not"} /\ Operands(fn_shape) = {PDisj})
                  => Len(fn_report.results) = IF c.kind = "Not" THEN Len(fn_values) ELSE 0
        /\ (PDisj \in SeqToSet(fn_shape.property_shapes)) =>
              \E r \in SeqToSet(fn_report.results) :
                  /\ r.source_shape = "PDisj"
                  /\ r.source_constraint_component \in QualifiedComponents

\* C29 witness: PDisj validated directly on a focus node with two values
\* conforming to its qualified value shape gives no result
C29_Witness ==
    /\ FocusDone
    /\ fn_shape = PDisj
    /\ Len(fn_values) = 2
    /\ \A i \in 1..2 : ValidateNode(fn_graph, QualifiedA, fn_values[i])
    /\ fn_report.results = <<>>

----------------------------------------------------------------------------
(* SpecFocus: where the results of operand shapes go *)

\* the component a constraint with operand shapes reports
OperandComponent(c) ==
    CASE c.kind = "And" -> "AndConstraintComponent"
      [] c.kind = "Or" -> "OrConstraintComponent"
      [] c.kind = "Xone" -> "XoneConstraintComponent"
      [] c.kind = "Not" -> "NotConstraintComponent"
      [] c.kind = "Node" -> "NodeConstraintComponent"
      [] OTHER -> ""

OperandNames == {sh.node : sh \in Operands(fn_shape)}

\* the top-level results of the report a constraint produced
TopLevelOf(c) ==
    SelectSeq(fn_report.results,
              LAMBDA r : /\ r.source_constraint_component = OperandComponent(c)
                         /\ r.source_shape = fn_shape.node)

\* C30: the results of evaluating an operand shape of sh:and, sh:or, sh:xone,
\* sh:not or sh:node are never top-level results of the enclosing report:
\* such a constraint adds at most one top-level result per value node, and
\* the results of the operands are found only in the details of that result.
C30_OperandResultsOnlyInDetails ==
    FocusDone =>
        /\ \A r \in SeqToSet(fn_report.results) : r.source_shape \notin OperandNames
        /\ \A c \in SeqToSet(fn_shape.constraints) :
              OperandComponent(c) # "" =>
                  LET top == TopLevelOf(c)
                  IN /\ Len(top) <= Len(fn_values)
                     /\ \A i, j \in 1..Len(top) : i # j => top[i].value # top[j].value
                     /\ \A i \in 1..Len(top) :
                           /\ top[i].value \in {Some(v) : v \in SeqToSet(fn_values)}
                           /\ \A d \in SeqToSet(top[i].details) :
                                 d.source_shape \in OperandNames

\* C30 witness: one sh:and violation for a value node, with the results of
\* its two failed operands in the details
C30_Witness ==
    /\ FocusDone
    /\ \E r \in SeqToSet(fn_report.results) :
          /\ r.source_constraint_component = "AndConstraintComponent"
          /\ {d.source_shape : d \in SeqToSet(r.details)} = {"IsB", "TypedC"}
    /\ Len(fn_report.results) = 1

----------------------------------------------------------------------------
(* SpecFocus: the predicates sh:closed allows *)

\* the predicates the head of a path gives: the leading IRI, or the IRI
\* alternatives of a leading alternative
LeadingPredicates(elements) ==
    IF elements = <<>> THEN {} ELSE SeqToSet(ExtractDirectPredicates(<<Head(elements)>>))

\* the predicates given by every element of a path
AllDirectPredicates(elements) == SeqToSet(ExtractDirectPredicates(elements))

\* the (object, message) pairs of the closed violations when each nested
\* property shape allows the predicates of the head of its path (heads_only)
\* or of all the elements of its path
ClosedViolations(heads_only) ==
    LET with_path == SelectSeq(fn_shape.property_shapes, LAMBDA ps : ps.path # None)
        allowed ==
            fn_shape.closed[1].ignored_properties
            \cup UNION {IF heads_only THEN LeadingPredicates(with_path[i].path[1])
                        ELSE AllDirectPredicates(with_path[i].path[1]) :
                          i \in 1..Len(with_path)}
        offending == SelectSeq(TriplesForSubject(fn_graph, fn_focus),
                               LAMBDA t : t[2] \notin allowed)
    IN [i \in 1..Len(offending) |->
           <<Some(offending[i][3]),
             "Property " \o offending[i][2] \o " is not allowed (closed shape)">>]

ClosedReported ==
    LET closed_results == ResultsOf("ClosedConstraintComponent")
    IN [i \in 1..Len(closed_results) |->
           <<closed_results[i].value, closed_results[i].message>>]

\* C26: for sh:closed a nested property shape with a sequence path allows only
\* the leading IRI of the sequence (a leading alternative allows its IRI
\* alternatives, an inverse element nothing); an outgoing triple of the focus
\* node whose predicate is neither ignored nor allowed in this way is reported
\* as a closed violation, a predicate at a later position of a path included.
C26_ClosedAllowsPathHeads ==
    (FocusDone /\ fn_shape.closed # None) => ClosedReported = ClosedViolations(TRUE)

\* what the validator does: every IRI element of a nested path, and every IRI
\* alternative of every alternative element, is allowed, at any position
ClosedAllowsEveryPathIri ==
    (FocusDone /\ fn_shape.closed # None) => ClosedReported = ClosedViolations(FALSE)

----------------------------------------------------------------------------
(* SpecPath: the list resolve_path_for_given_node returns *)

\* what the last element of the path pushed to `results`, before the filter
LastResults ==
    IF path = <<>> THEN <<start>>
    ELSE ResolveSubjects(graph, path[Len(path)],
             Subjects(ApplyElements(graph, SubSeq(path, 1, Len(path) - 1), <<start>>)))

FirstIndex(s, x) == CHOOSE i \in 1..Len(s) : s[i] = x /\ \A j \in 1..(i - 1) : s[j] # x

\* C22: the list returned by path resolution contains no term twice, holds
\* exactly the terms the last element produced, and has them in the order of
\* their first occurrence.
C22_ResolvedListUnique ==
    PathDone =>
        /\ \A i, j \in 1..Len(current_nodes) : i < j => current_nodes[i] # current_nodes[j]
        /\ SeqToSet(current_nodes) = SeqToSet(LastResults)
        /\ \A i, j \in 1..Len(current_nodes) :
              i < j => FirstIndex(LastResults, current_nodes[i])
                         < FirstIndex(LastResults, current_nodes[j])

\* C22 witness: p followed by inverse p from a, where a is reached back
\* through two neighbours, returns a once
C22_Witness ==
    /\ PathDone
    /\ path = <<Iri("p"), Inverse("p")>>
    /\ start = "a"
    /\ Len(LastResults) >= 2
    /\ current_nodes = <<"a">>

----------------------------------------------------------------------------
(* SpecList: utils::parse_rdf_list, one iteration of its loop per step.     *)

MaxListTriples == 3
MaxListSteps == 6

ListCells == {"L", "_:k", "_:l"}

\* rdf:first and rdf:rest statements of up to three cells: well-formed
\* chains, a literal rdf:rest, and rdf:rest statements that close a cycle
ListTriples ==
    {<<"L", "rdf:first", "a">>, <<"_:k", "rdf:first", "b">>,
     <<"_:l", "rdf:first", "c">>,
     <<"L", "rdf:rest", "_:k">>, <<"L", "rdf:rest", "rdf:nil">>,
     <<"L", "rdf:rest", "L">>,
     <<"_:k", "rdf:rest", "_:l">>, <<"_:k", "rdf:rest", "L">>,
     <<"_:k", "rdf:rest", "l">>,
     <<"_:l", "rdf:rest", "rdf:nil">>, <<"_:l", "rdf:rest", "_:k">>}

ListGraphs == {g \in SUBSET ListTriples : Cardinality(g) <= MaxListTriples}

ListInit ==
    /\ ReportIdle /\ PathIdle /\ ValidateIdle /\ TargetIdle /\ FocusIdle /\ ParseIdle
    /\ CompileIdle /\ SparqlIdle
    /\ lst_graph \in ListGraphs
    /\ lst_current \in ListCells \cup {"rdf:nil"}
    /\ lst_result = <<>>
    /\ lst_trail = <<lst_current>>
    /\ lst_pc = "loop"

\* the rdf:rest of `current` when the loop can follow it
UsableRest(g, current) ==
    LET rest == ObjectForSubjectPredicate(g, current, "rdf:rest")
    IN IF rest # None /\ ~IsLiteral(rest[1]) THEN rest ELSE None

\* `if nn == rdf::NIL { break; }`
ListReachedNil ==
    /\ lst_pc = "loop"
    /\ lst_current = "rdf:nil"
    /\ lst_pc' = "done"
    /\ UNCHANGED <<lst_graph, lst_current, lst_result, lst_trail, outsideList>>

\* one iteration that ends with `current = rest`; nothing in the code bounds
\* the number of iterations, the model stops after MaxListSteps of them
ListFollowRest ==
    /\ lst_pc = "loop"
    /\ lst_current # "rdf:nil"
    /\ UsableRest(lst_graph, lst_current) # None
    /\ Len(lst_trail) < MaxListSteps
    /\ lst_result' = lst_result \o ObjectForSubjectPredicate(lst_graph, lst_current, "rdf:first")
    /\ lst_current' = UsableRest(lst_graph, lst_current)[1]
    /\ lst_trail' = Append(lst_trail, lst_current')
    /\ UNCHANGED <<lst_graph, lst_pc, outsideList>>

\* one iteration that ends with `break`: no rdf:rest, or a literal one
ListBreak ==
    /\ lst_pc = "loop"
    /\ lst_current # "rdf:nil"
    /\ UsableRest(lst_graph, lst_current) = None
    /\ lst_result' = lst_result \o ObjectForSubjectPredicate(lst_graph, lst_current, "rdf:first")
    /\ lst_pc' = "done"
    /\ UNCHANGED <<lst_graph, lst_current, lst_trail, outsideList>>

ListNext ==
    \/ ListReachedNil
    \/ ListFollowRest
    \/ ListBreak

SpecList == ListInit /\ [][ListNext]_vars

ListRevisited == \E i, j \in 1..Len(lst_trail) : i < j /\ lst_trail[i] = lst_trail[j]

\* C21: parse_rdf_list terminates for every finite graph and head: it stops
\* at rdf:nil, at a node without a usable rdf:rest, or at the first node it
\* has already visited, so the loop has stopped whenever `current` has come
\* back to a node it has been at.
C21_ListStopsAtCycle == ListRevisited => lst_pc = "done"

\* what the loop does: it stops only at rdf:nil or at a node without a
\* usable rdf:rest, and then returns the members of the chain in order; on a
\* cyclic chain it goes round for as long as it is run
ListStopsOnlyAtChainEnd ==
    /\ lst_pc = "done" =>
          /\ ~ListRevisited
          /\ lst_result = ParseRdfList(lst_graph, lst_trail[1])
    /\ (lst_pc = "loop" /\ ListRevisited) =>
          /\ lst_current # "rdf:nil"
          /\ UsableRest(lst_graph, lst_current) # None

----------------------------------------------------------------------------
(* SpecCompile: the calls parse_shapes makes, one call or return per step.  *)
(* A call under way is a frame: the shape node it parses and the shape      *)
(* nodes it has still to parse as operands or nested property shapes.       *)

MaxCompileTriples == 4
MaxDepth == 4

CompileTriples ==
    {<<"S1", "type", "sh:NodeShape">>, <<"S2", "type", "sh:NodeShape">>,
     <<"S1", "sh:node", "S1">>, <<"S1", "sh:node", "S2">>, <<"S2", "sh:node", "S1">>,
     <<"S2", "sh:not", "S1">>, <<"S1", "sh:property", "PN">>, <<"PN", "sh:path", "p">>,
     <<"PN", "sh:property", "PN">>, <<"PN", "sh:node", "S1">>}

CompileGraphs == {g \in SUBSET CompileTriples : Cardinality(g) <= MaxCompileTriples}

ShapeRef(node) == [node |-> node, entry |-> "parse_shape"]
PropertyRef(node) == [node |-> node, entry |-> "parse_property_shape"]

\* the parse_shape calls of parse_all_constraints: sh_node for every sh:node
\* object, then sh_not for the sh:not object
ConstraintRefs(g, node) ==
    LET node_objs == SelectSeq(ObjectsForSubjectPredicate(g, node, "sh:node"),
                               LAMBDA o : ~IsLiteral(o))
        not_obj == ObjectForSubjectPredicate(g, node, "sh:not")
    IN [i \in 1..Len(node_objs) |-> ShapeRef(node_objs[i])]
       \o (IF not_obj # None /\ ~IsLiteral(not_obj[1])
           THEN <<ShapeRef(not_obj[1])>> ELSE <<>>)

\* the parse_property_shape calls of parse_nested_property_shapes
PropertyRefs(g, node) ==
    LET objs == SelectSeq(ObjectsForSubjectPredicate(g, node, "sh:property"),
                          LAMBDA o : ~IsLiteral(o))
    IN [i \in 1..Len(objs) |-> PropertyRef(objs[i])]

\* the calls one call makes, in order: with a sh:path (top-level or nested
\* property shape) the path is parsed first and an Err returns at once, then
\* come the constraints and the nested property shapes; a node shape parses
\* its nested property shapes before its constraints
CallsOf(g, ref) ==
    LET path_obj == ObjectForSubjectPredicate(g, ref.node, "sh:path")
    IN IF path_obj # None
       THEN IF ParsePath(g, path_obj[1]).ok
            THEN ConstraintRefs(g, ref.node) \o PropertyRefs(g, ref.node)
            ELSE <<>>
       ELSE IF ref.entry = "parse_property_shape" THEN <<>>
            ELSE PropertyRefs(g, ref.node) \o ConstraintRefs(g, ref.node)

Frame(g, ref) == [node |-> ref.node, calls |-> CallsOf(g, ref)]

CompileInit ==
    /\ ReportIdle /\ PathIdle /\ ValidateIdle /\ TargetIdle /\ FocusIdle /\ ParseIdle
    /\ ListIdle /\ SparqlIdle
    /\ cmp_graph \in CompileGraphs
    /\ cmp_nodes = {}
    /\ cmp_stack = <<>>
    /\ cmp_pc = "start"

\* let shape_nodes = find_shape_nodes(graph)
CompileFindShapeNodes ==
    /\ cmp_pc = "start"
    /\ cmp_nodes' = FindShapeNodes(cmp_graph)
    /\ cmp_pc' = "loop"
    /\ UNCHANGED <<cmp_graph, cmp_stack, outsideCompile>>

\* `for shape_node in shape_nodes`: parse_shape(graph, shape_node, None) is called
CompileStartShape ==
    /\ cmp_pc = "loop"
    /\ \E n \in cmp_nodes :
          /\ cmp_nodes' = cmp_nodes \ {n}
          /\ cmp_stack' = <<Frame(cmp_graph, ShapeRef(n))>>
    /\ cmp_pc' = "parsing"
    /\ UNCHANGED <<cmp_graph, outsideCompile>>

\* the call on top makes its next call; nothing in the code bounds the depth,
\* the model stops at MaxDepth calls
CompileDescend ==
    /\ cmp_pc = "parsing"
    /\ cmp_stack[Len(cmp_stack)].calls # <<>>
    /\ Len(cmp_stack) < MaxDepth
    /\ LET top == cmp_stack[Len(cmp_stack)]
       IN cmp_stack' =
             Append([cmp_stack EXCEPT ![Len(cmp_stack)].calls = Tail(top.calls)],
                    Frame(cmp_graph, Head(top.calls)))
    /\ UNCHANGED <<cmp_graph, cmp_nodes, cmp_pc, outsideCompile>>

\* the call on top has made all its calls and returns
CompileUnwind ==
    /\ cmp_pc = "parsing"
    /\ cmp_stack[Len(cmp_stack)].calls = <<>>
    /\ cmp_stack' = SubSeq(cmp_stack, 1, Len(cmp_stack) - 1)
    /\ cmp_pc' = IF Len(cmp_stack) = 1 THEN "loop" ELSE "parsing"
    /\ UNCHANGED <<cmp_graph, cmp_nodes, outsideCompile>>

\* the loop over the shape nodes is over: Ok(shapes)
CompileReturn ==
    /\ cmp_pc = "loop"
    /\ cmp_nodes = {}
    /\ cmp_pc' = "done"
    /\ UNCHANGED <<cmp_graph, cmp_nodes, cmp_stack, outsideCompile>>

CompileNext ==
    \/ CompileFindShapeNodes
    \/ CompileStartShape
    \/ CompileDescend
    \/ CompileUnwind
    \/ CompileReturn

SpecCompile == CompileInit /\ [][CompileNext]_vars

\* C25: parse_shapes terminates on every finite shapes graph: a reference of
\* a shape to itself or to a shape being compiled (through sh:node, sh:not,
\* sh:property, ...) is detected by shape-node identity and is broken or
\* rejected, so no shape node is under compilation twice at a time.
C25_ShapeCyclesDetected ==
    \A i, j \in 1..Len(cmp_stack) : i < j => cmp_stack[i].node # cmp_stack[j].node

\* what the compiler does: every reference is followed by a new call, whatever
\* the calls under way, and parse_shapes returns only if no call ran into a
\* shape node under compilation
CompileFollowsEveryReference ==
    /\ \A i \in 1..(Len(cmp_stack) - 1) :
          cmp_stack[i + 1].node \in
              {r.node : r \in SeqToSet(CallsOf(cmp_graph, ShapeRef(cmp_stack[i].node))
                                         \o CallsOf(cmp_graph,
                                                    PropertyRef(cmp_stack[i].node)))}
    /\ (cmp_pc = "parsing" /\ Len(cmp_stack) = MaxDepth) => ~C25_ShapeCyclesDetected

----------------------------------------------------------------------------
(* SpecSparql: SparqlConstraint::validate, one query parsed or executed per *)
(* step.  sq_log records what was done for the binding under way.           *)

MaxSparqlValues == 2

SparqlQueries ==
    {"q_select", "q_ask", "q_union", "q_minus", "q_parse_error", "q_exec_error",
     "q_eval_error", "q_this_eval_error", "q_plain"}

SparqlConstraints ==
    {Sparql(q, x, k) : q \in SparqlQueries, x \in {"Select", "Ask"},
                       k \in {None, Some("CustomComponent")}}

SparqlShapes == {NodeShape("NSparql", <<>>), PropertyShape("PSparql", "p", <<>>)}

SparqlInit ==
    /\ ReportIdle /\ PathIdle /\ ValidateIdle /\ TargetIdle /\ FocusIdle /\ ParseIdle
    /\ ListIdle /\ CompileIdle
    /\ sq_constraint \in SparqlConstraints
    /\ sq_shape \in SparqlShapes
    /\ sq_focus \in {"a", "b"}
    /\ \E value_nodes \in SeqsUpTo({"b", "c"}, MaxSparqlValues) :
          sq_targets = IF UnsupportedPrebinding(sq_constraint.query)
                       THEN <<IF value_nodes = <<>> THEN None ELSE Some(value_nodes[1])>>
                       ELSE RunOnceTargets(sq_constraint, sq_shape, sq_focus, value_nodes)
    /\ sq_violations = <<>>
    /\ sq_before = 0
    /\ sq_log = <<>>
    /\ sq_pc = "enter"

\* unsupported_prebinding_construct is Some: one violation, `return Ok(violations)`
SparqlUnsupported ==
    /\ sq_pc = "enter"
    /\ UnsupportedPrebinding(sq_constraint.query)
    /\ sq_violations' =
          <<BuildValidationResult(sq_shape, sq_focus, sq_targets[1],
                ConstraintComponent(sq_constraint), "SPARQL pre-binding violation",
                "unsupported pre-binding construct: " \o sq_constraint.query)>>
    /\ sq_pc' = "done"
    /\ UNCHANGED <<sq_constraint, sq_shape, sq_focus, sq_targets, sq_before, sq_log,
                   outsideSparql>>

\* `for maybe_value in run_once_targets`: the next binding, or the return
SparqlNextBinding ==
    /\ \/ sq_pc = "enter" /\ ~UnsupportedPrebinding(sq_constraint.query)
          /\ UNCHANGED sq_targets
       \/ sq_pc = "next" /\ sq_targets' = Tail(sq_targets)
    /\ sq_pc' = IF sq_targets' = <<>> THEN "done" ELSE "bind"
    /\ sq_log' = <<>>
    /\ UNCHANGED <<sq_constraint, sq_shape, sq_focus, sq_violations, sq_before,
                   outsideSparql>>

\* evaluator.parse_query(&bound_query); an Err pushes a violation and continues
SparqlParsePrimary ==
    /\ sq_pc = "bind"
    /\ sq_log' = Append(sq_log, "parse primary")
    /\ IF PrimaryRun(sq_constraint.query, sq_focus, sq_targets[1]).parse = "err"
       THEN /\ sq_violations' = sq_violations
                  \o SparqlParseError(sq_constraint, sq_shape, sq_focus, sq_targets[1])
            /\ sq_pc' = "next"
       ELSE /\ sq_violations' = sq_violations
            /\ sq_pc' = "execute"
    /\ UNCHANGED <<sq_constraint, sq_shape, sq_focus, sq_targets, sq_before,
                   outsideSparql>>

\* prepared.on_store(..).execute(), violations_before and the match on the results
SparqlExecutePrimary ==
    /\ sq_pc = "execute"
    /\ sq_log' = Append(sq_log, "execute primary")
    /\ sq_before' = Len(sq_violations)
    /\ sq_violations' = sq_violations
          \o SparqlMatch(sq_constraint, sq_shape, sq_focus, sq_targets[1],
                         PrimaryRun(sq_constraint.query, sq_focus, sq_targets[1]),
                         "", TRUE)
    /\ sq_pc' = "check"
    /\ UNCHANGED <<sq_constraint, sq_shape, sq_focus, sq_targets, outsideSparql>>

\* a test that leaves out violations.len() == violations_before
FallbackDueForThis == HasThisVar(sq_constraint.query)

\* `if violations.len() == violations_before && has_this_var`
FallbackDue == Len(sq_violations) = sq_before /\ HasThisVar(sq_constraint.query)

\* the test fails: the iteration ends
SparqlSkipFallback ==
    /\ sq_pc = "check"
    /\ ~FallbackDue
    /\ sq_pc' = "next"
    /\ UNCHANGED <<sq_constraint, sq_shape, sq_focus, sq_targets, sq_violations,
                   sq_before, sq_log, outsideSparql>>

\* the rewritten query is parsed and, if that succeeds, executed and matched
SparqlRunFallback ==
    /\ sq_pc = "check"
    /\ FallbackDue
    /\ LET fb == FallbackRun(sq_constraint.query, sq_focus)
       IN IF fb.parse = "ok"
          THEN /\ sq_log' = sq_log \o <<"parse fallback", "execute fallback">>
               /\ sq_violations' = sq_violations
                     \o SparqlMatch(sq_constraint, sq_shape, sq_focus, sq_targets[1], fb,
                                    " (fallback)", FALSE)
          ELSE /\ sq_log' = Append(sq_log, "parse fallback")
               /\ sq_violations' = sq_violations
    /\ sq_pc' = "unresolved"
    /\ UNCHANGED <<sq_constraint, sq_shape, sq_focus, sq_targets, sq_before,
                   outsideSparql>>

\* unresolved_prebinding and the violation it pushes
SparqlUnresolved ==
    /\ sq_pc = "unresolved"
    /\ sq_violations' =
          IF Len(sq_violations) = sq_before /\ HasBoundOrUnion(sq_constraint.query)
          THEN Append(sq_violations,
                   BuildValidationResult(sq_shape, sq_focus, sq_targets[1],
                       ConstraintComponent(sq_constraint), "SPARQL pre-binding violation",
                       "SPARQL pre-binding fallback: " \o sq_constraint.query))
          ELSE sq_violations
    /\ sq_pc' = "next"
    /\ UNCHANGED <<sq_constraint, sq_shape, sq_focus, sq_targets, sq_before, sq_log,
                   outsideSparql>>

SparqlNext ==
    \/ SparqlUnsupported
    \/ SparqlNextBinding
    \/ SparqlParsePrimary
    \/ SparqlExecutePrimary
    \/ SparqlSkipFallback
    \/ SparqlRunFallback
    \/ SparqlUnresolved

SpecSparql == SparqlInit /\ [][SparqlNext]_vars

\* the violations the binding under way has got from its primary query
PrimaryViolations ==
    IF "execute primary" \in SeqToSet(sq_log)
    THEN SparqlMatch(sq_constraint, sq_shape, sq_focus, sq_targets[1],
                     PrimaryRun(sq_constraint.query, sq_focus, sq_targets[1]), "", TRUE)
    ELSE IF sq_pc = "next" /\ sq_log = <<"parse primary">>
    THEN SparqlParseError(sq_constraint, sq_shape, sq_focus, sq_targets[1])
    ELSE <<>>

FallbackRan == "parse fallback" \in SeqToSet(sq_log)

\* C27: for one binding the fallback rewrite query is run only after the
\* query with the injected VALUES has been parsed and executed and has added
\* no violation, and only if the query text has $this or ?this; when the
\* primary run added a violation (a solution, a false ASK, a parse error or
\* an execution error) the fallback is not run for the binding.
C27_FallbackOnlyAfterSilentPrimary ==
    /\ FallbackRan =>
          /\ SubSeq(sq_log, 1, 3) = <<"parse primary", "execute primary", "parse fallback">>
          /\ HasThisVar(sq_constraint.query)
          /\ PrimaryViolations = <<>>
    /\ (sq_pc \in {"next", "unresolved"} /\ PrimaryViolations # <<>>) => ~FallbackRan

\* C27 witness: the primary SELECT had no solution for focus b and the
\* fallback query, run after it, produced the violation
C27_Witness ==
    /\ sq_pc = "next"
    /\ sq_log = <<"parse primary", "execute primary", "parse fallback", "execute fallback">>
    /\ PrimaryViolations = <<>>
    /\ Len(sq_violations) > sq_before

\* the steps give what the operator gives
SparqlStepsAgreeWithOperator ==
    (sq_pc = "done" /\ ~UnsupportedPrebinding(sq_constraint.query)) =>
        \E value_nodes \in SeqsUpTo({"b", "c"}, MaxSparqlValues) :
            sq_violations = SparqlValidate(sq_constraint, sq_shape, sq_focus, value_nodes)

====
